---- MODULE Spec2Model ----
(***************************************************************************)
(* Model of the nesting engine of the FreeCAD Nesting Workbench.           *)
(*                                                                         *)
(*   Spec        the top-level nest() of nesting_logic.py driving          *)
(*               BaseNester.nest (base_nester.py): module import, the      *)
(*               selector and dependency checks, BaseNester.__init__,      *)
(*               the sort and the first-fit multi-sheet loop.              *)
(*                                                                         *)
(* Geometry is discretised: a sheet is a grid of unit cells, a part is a   *)
(* w x h rectangle whose pose is the bottom-left corner of its bounding    *)
(* box plus an angle in degrees (a quarter turn swaps w and h).            *)
(***************************************************************************)
EXTENDS Integers, Sequences, FiniteSets, TLC

\* ------------------------------------------------------------------ bounds
\* Longest input list of parts.
MaxParts == 3

VARIABLES
    \* --- the call's inputs (nesting_logic.nest arguments, environment) ---
    shapely_installed,  \* whether the Shapely package can be imported
    parts,              \* the caller's list of Shape objects
    width, height,      \* sheet dimensions passed to nest()
    rotation_steps_arg, \* rotation_steps passed to nest()
    algorithm,          \* the algorithm selector
    \* --- nesting_logic module / call state ---
    pc,                 \* position of the control flow
    SHAPELY_AVAILABLE,  \* module global set by the guarded import
    raised,             \* exception that ended the call ("" when none)
    nester,             \* the constructed nester ([made |-> FALSE] before)
    \* --- BaseNester.nest state ---
    parts_to_place,     \* self.parts_to_place
    sheets,             \* self.sheets
    unplaced_shapes,    \* local list of nest()
    original_shape,     \* the part popped by the current iteration
    sheet_idx,          \* position of the for-loop over self.sheets (1-based)
    \* --- history (observation only, never read by the actions' guards) ---
    sheet_created,      \* whether a Sheet object has been constructed
    attempted,          \* whether _attempt_placement_on_sheet has been called
    processed,          \* parts in the order nest() popped them
    rejected_by,        \* sheet ids that rejected original_shape in this iteration
    last_event,         \* what the last step of nest() did
    \* --- GravityNester._apply_gravity_to_part (SpecGravity) ---
    g_pc,               \* position of the control flow
    g_kwargs_callback,  \* whether the constructor's kwargs hold 'update_callback'
    g_update_callback,  \* the attribute self.update_callback: "unset", "None", "callable"
    g_max_nesting_steps,\* self.max_nesting_steps
    g_sheet,            \* the sheet the part moves on
    g_part,             \* the moving part
    g_x, g_y,           \* bottom-left corner of the part's bounding box
    g_direction,        \* the direction vector
    g_i,                \* iterations of the movement loop started so far
    g_moves,            \* part.move calls made by the loop
    g_callback_calls,   \* invocations of the update callback
    g_raised,           \* exception that ended the call ("" when none)
    \* --- MinkowskiEngine and the NFP caches (SpecNfp) ---
    gpu_requested,      \* the constructor's use_gpu argument
    gpu_available,      \* nfp_gpu_taichi was imported and is_available()
    use_gpu,            \* self.use_gpu
    geom,               \* what the CPU geometry of each pair yields
    gpu_geom,           \* what the GPU kernel yields
    shape_nfp_cache,    \* Shape.nfp_cache, the pairwise cache
    geometry_calls,     \* invocations of the geometry routines so far
    sheet_parts,        \* sheet.parts (labels of the placed parts)
    sheet_nfp_cache,    \* sheet.nfp_cache[cache_key]
    th_pc,              \* position of each thread's control flow
    th,                 \* each thread's locals
    th_ret,             \* what each thread's last query returned
    \* --- LayoutManager.calculate_efficiency (SpecFitness) ---
    fit_sheet_width,    \* the sheet_width argument
    fit_sheet_height,   \* the sheet_height argument
    fit_layouts,        \* the two layouts compared
    fit_done,           \* which of them calculate_efficiency was called on
    \* --- genetic_utils.ordered_crossover (SpecCrossover) ---
    ox_pc,              \* position of the control flow
    ox_parent1,         \* parent1, as the list of its parts' ids
    ox_parent2,         \* parent2, likewise
    ox_start, ox_end,   \* the slice [start, end), 0-based
    ox_child_p,         \* child_p (0 stands for None)
    ox_child_ids_set,   \* child_ids_set
    ox_i,               \* the fill loop's index, 0-based
    ox_p2_index,        \* p2_index, 0-based
    ox_raised,          \* exception that ended the call ("" when none)
    \* --- AnnealController._run_annealing_on_sheet (SpecAnneal) ---
    an_pc,              \* position of the control flow
    an_params,          \* the SA parameters read from the UI
    an_has_parts,       \* whether parts_to_anneal is non-empty
    an_current_solution,\* current_solution
    an_best_solution,   \* best_solution
    an_current_cost,    \* current_cost
    an_best_cost,       \* best_cost
    an_temp,            \* temp
    an_total_iterations,\* total_iterations
    an_k,               \* iterations of the for loop done in this pass
    an_last,            \* the last iteration's neighbour cost, draw and decision
    \* --- cancellation of a nest() run (SpecCancel) ---
    cancel_requested,   \* whether the caller has asked the run to stop
    \* --- the caller's part objects across a nest() call (SpecIsolation) ---
    iso_pc,                 \* position of the control flow of nest()
    iso_has_callback,       \* whether 'update_callback' is a key of kwargs
    iso_heap,               \* pose of every part object
    iso_before,             \* iso_heap as it was when nest() was called
    iso_parts_to_process,   \* the objects the nester still has to place
    \* --- the NFP of one pair on the CPU and on the GPU path (SpecGpuCpu) ---
    eq_pc,              \* position in run_test
    eq_poly_A,          \* shape_A.original_polygon (exterior and holes)
    eq_poly_B,          \* part_to_place.original_polygon
    eq_angle_B,         \* the relative angle, in degrees
    eq_nfp_cpu,         \* polygon of _calculate_and_cache_nfp
    eq_out_vertices,    \* out_verts_np of the kernel
    eq_nfp_gpu,         \* polygon of _calculate_and_cache_nfp_gpu
    eq_area_diff,       \* abs(poly_cpu.area - poly_gpu.area)
    eq_centroid_dist2,  \* square of twice the distance of the centroids
    \* --- the shake search _anneal_part (SpecShake) ---
    sk_pc,                      \* position in _anneal_part
    sk_anneal_steps,            \* self.anneal_steps
    sk_anneal_rotate_enabled,   \* self.anneal_rotate_enabled
    sk_anneal_translate_enabled, \* self.anneal_translate_enabled
    sk_anneal_random_shake_direction, \* self.anneal_random_shake_direction
    sk_rotate_enabled,          \* argument rotate_enabled
    sk_translate_enabled,       \* argument translate_enabled
    sk_direction,               \* argument current_gravity_direction
    sk_sheet,                   \* argument sheet
    sk_part,                    \* argument part_to_shake (its geometry)
    sk_pose,                    \* where part_to_shake is
    sk_start,                   \* the pose when _anneal_part was called
    sk_initial,                 \* initial_bl_x, initial_bl_y, initial_angle
    sk_initial_side_direction,  \* initial_side_direction
    sk_i,                       \* loop variable i
    sk_attempts,                \* the poses handed to is_placement_valid, in order
    \* --- GravityNester._move_until_collision (SpecMove) ---
    mv_pc,                  \* position in _move_until_collision
    mv_cfg,                 \* the nester's settings (attributes of self)
    mv_sheet,               \* argument sheet
    mv_part,                \* argument part (its geometry)
    mv_direction,           \* argument direction
    mv_pose,                \* where the part is
    mv_pre_shake,           \* the pose when phase 2 began
    mv_post_rot,            \* the pose after step 2a
    mv_rot_ran,             \* whether the rotation-only search was called
    mv_trans_ran,           \* whether the translation-only search was called
    mv_gravity_phases,      \* calls of _apply_gravity_to_part so far
    mv_raised,              \* the exception that left the call, if any
    \* --- genetic_utils: chromosomes and their part objects (SpecChromosome) ---
    ga_pc,              \* which of the calls have been made
    ga_parts,           \* the parts argument of create_random_chromosome
    ga_rotation_steps,  \* the rotation_steps argument of the genetic operators
    ga_heap,            \* the part objects the chromosomes hold, by reference
    ga_parent1,         \* first chromosome, a list of references
    ga_parent2,         \* second chromosome
    ga_child,           \* what ordered_crossover returned
    ga_before           \* the parents' parts as they were when the child was made

gravVars == <<g_pc, g_kwargs_callback, g_update_callback, g_max_nesting_steps, g_sheet,
              g_part, g_x, g_y, g_direction, g_i, g_moves, g_callback_calls, g_raised>>

nestAllVars == <<shapely_installed, parts, width, height, rotation_steps_arg, algorithm,
          pc, SHAPELY_AVAILABLE, raised, nester,
          parts_to_place, sheets, unplaced_shapes, original_shape, sheet_idx,
          sheet_created, attempted, processed, rejected_by, last_event>>

nfpVars == <<gpu_requested, gpu_available, use_gpu, geom, gpu_geom, shape_nfp_cache, geometry_calls, sheet_parts,
             sheet_nfp_cache, th_pc, th, th_ret>>

fitVars == <<fit_sheet_width, fit_sheet_height, fit_layouts, fit_done>>

oxVars == <<ox_pc, ox_parent1, ox_parent2, ox_start, ox_end, ox_child_p,
            ox_child_ids_set, ox_i, ox_p2_index, ox_raised>>

anVars == <<an_pc, an_params, an_has_parts, an_current_solution, an_best_solution,
            an_current_cost, an_best_cost, an_temp, an_total_iterations, an_k, an_last>>

cancelVars == <<cancel_requested>>

isoVars == <<iso_pc, iso_has_callback, iso_heap, iso_before, iso_parts_to_process>>

eqVars == <<eq_pc, eq_poly_A, eq_poly_B, eq_angle_B, eq_nfp_cpu, eq_out_vertices, eq_nfp_gpu, eq_area_diff, eq_centroid_dist2>>

shakeVars == <<sk_pc, sk_anneal_steps, sk_anneal_rotate_enabled, sk_anneal_translate_enabled, sk_anneal_random_shake_direction, sk_rotate_enabled, sk_translate_enabled, sk_direction, sk_sheet, sk_part, sk_pose, sk_start, sk_initial, sk_initial_side_direction, sk_i, sk_attempts>>

moveVars == <<mv_pc, mv_cfg, mv_sheet, mv_part, mv_direction, mv_pose, mv_pre_shake, mv_post_rot, mv_rot_ran, mv_trans_ran, mv_gravity_phases, mv_raised>>

gaVars == <<ga_pc, ga_parts, ga_rotation_steps, ga_heap, ga_parent1, ga_parent2, ga_child, ga_before>>

vars == <<nestAllVars, gravVars, nfpVars, fitVars, oxVars, anVars, cancelVars, isoVars, eqVars, shakeVars, moveVars, gaVars>>

\* What the actions of Spec leave alone.
outsideNest == <<gravVars, nfpVars, fitVars, oxVars, anVars, cancelVars, isoVars, eqVars, shakeVars, moveVars, gaVars>>

inputVars == <<shapely_installed, parts, width, height, rotation_steps_arg, algorithm>>

\* ------------------------------------------------------------ data model

\* Shape: id (unique per instance), bounding box at angle 0, rotation_steps.
NoShape == [id |-> 0, w |-> 0, h |-> 0, rotation_steps |-> 1]

\* The part geometries the inputs are drawn from: a unit square, a 2x1 bar
\* that may be turned in quarter turns, and a 3x3 square, larger than any
\* sheet the calls are drawn from.
PartShapes ==
    { [w |-> 1, h |-> 1, rotation_steps |-> 1],
      [w |-> 2, h |-> 1, rotation_steps |-> 4],
      [w |-> 3, h |-> 3, rotation_steps |-> 1] }

InputLists ==
    UNION { { [i \in 1..n |-> [id |-> i, w |-> f[i].w, h |-> f[i].h,
                                rotation_steps |-> f[i].rotation_steps]]
              : f \in [1..n -> PartShapes] } : n \in 0..MaxParts }

\* Shape.area of the (rectangular) polygon.
Area(p) == p.w * p.h

Angles == {0, 90, 180, 270}

\* Bounding box of a part turned by angle: a quarter turn swaps w and h.
BoxW(p, angle) == IF angle \in {90, 270} THEN p.h ELSE p.w
BoxH(p, angle) == IF angle \in {90, 270} THEN p.w ELSE p.h

\* Cells covered by part p with its bounding box's bottom-left at (x, y).
Footprint(p, x, y, angle) ==
    { <<i, j>> : i \in x..(x + BoxW(p, angle) - 1), j \in y..(y + BoxH(p, angle) - 1) }

\* What _try_place_part_on_sheet hands back: None, the shape at a pose, or
\* an exception that propagates.
NoneResult == [kind |-> "none", x |-> 0, y |-> 0, angle |-> 0]
ShapeAt(x, y, angle) == [kind |-> "shape", x |-> x, y |-> y, angle |-> angle]
RaiseResult == [kind |-> "raise", x |-> 0, y |-> 0, angle |-> 0]

\* ------------------------------------------------------------------ Sheet
\* datatypes/sheet.py and datatypes/placed_part.py are not part of the
\* available sources; Sheet is modelled from the specification (4.2).

\* Sheet(id, width, height): no parts, empty occupied-area union.
NewSheet(id, w, h) == [id |-> id, width |-> w, height |-> h, parts |-> <<>>, union |-> {}]

\* PlacedPart(shape): the shape with the pose it has when it is accepted.
PlacedPart(p, x, y, angle) == [shape |-> p, x |-> x, y |-> y, angle |-> angle]

\* Sheet.is_placement_valid(shape, recalculate_union=False): inside
\* [0,width]x[0,height] and disjoint from the cached occupied-area union.
IsPlacementValid(sheet, p, x, y, angle) ==
    /\ x >= 0 /\ y >= 0
    /\ x + BoxW(p, angle) <= sheet.width
    /\ y + BoxH(p, angle) <= sheet.height
    /\ Footprint(p, x, y, angle) \cap sheet.union = {}

\* Sheet.add_part: append, and extend the union by the new part's polygon.
AddPart(sheet, pp) ==
    [sheet EXCEPT !.parts = Append(@, pp),
                  !.union = @ \cup Footprint(pp.shape, pp.x, pp.y, pp.angle)]

\* ------------------------------------------------------- BaseNester helpers

\* list.sort(key=area, reverse=True): insertion of p into a list already in
\* descending order, after every element whose area is >= its own (Python's
\* sort is stable, also with reverse=True).
RECURSIVE InsertByArea(_, _)
InsertByArea(p, s) ==
    IF s = <<>> THEN <<p>>
    ELSE IF Area(Head(s)) >= Area(p) THEN <<Head(s)>> \o InsertByArea(p, Tail(s))
    ELSE <<p>> \o s

RECURSIVE SortWith(_, _)
SortWith(s, n) ==
    IF n = 0 THEN <<>> ELSE InsertByArea(s[n], SortWith(s, n - 1))

\* A descending sort that is not stable: parts of equal area come out in the
\* reverse of their input order.
SortPartsByAreaUnstable(s) ==
    SortWith([i \in 1..Len(s) |-> s[Len(s) + 1 - i]], Len(s))

\* BaseNester._sort_parts_by_area
SortPartsByArea(s) == SortWith(s, Len(s))

\* ---------------------------------------------------- placement strategies

\* Angles a part with the given rotation_steps may be turned to.
AllowedAngles(p) ==
    IF p.rotation_steps > 1
    THEN { k * (360 \div p.rotation_steps) : k \in 0..(p.rotation_steps - 1) }
    ELSE {0}

\* Defaults of the nester's options.
max_spawn_count == 100
max_nesting_steps == 500

\* GravityNester._spawn_part_on_sheet, one attempt at angle a: a random
\* bottom-left corner in [0, bin - box] (0 when that is <= 0).
SpawnRange(p, a, w, h) ==
    { ShapeAt(x, y, a) :
        x \in 0..(IF w - BoxW(p, a) > 0 THEN w - BoxW(p, a) ELSE 0),
        y \in 0..(IF h - BoxH(p, a) > 0 THEN h - BoxH(p, a) ELSE 0) }

\* GravityNester._spawn_part_on_sheet: the attempts' candidate poses.
SpawnPoses(p, w, h) == UNION { SpawnRange(p, a, w, h) : a \in AllowedAngles(p) }

\* GravityNester._spawn_part_on_sheet: the first valid candidate drawn, or
\* None when all max_spawn_count draws are invalid.
SpawnResults(p, sheet, w, h) ==
    LET cands == SpawnPoses(p, w, h)
        valid == { c \in cands : IsPlacementValid(sheet, p, c.x, c.y, c.angle) }
    IN  valid \cup (IF max_spawn_count = 0 \/ cands # valid THEN {NoneResult} ELSE {})

\* GravityNester._apply_gravity_to_part as called first by
\* _move_until_collision: the first of the max_nesting_steps iterations reads
\* self.update_callback, an attribute no __init__ assigns: AttributeError.
MoveUntilCollision(spawned) ==
    IF max_nesting_steps >= 1 THEN RaiseResult ELSE spawned

\* GravityNester._try_place_part_on_sheet
GravityTryPlace(p, sheet, w, h) ==
    { IF s.kind = "shape" THEN MoveUntilCollision(s) ELSE s
        : s \in SpawnResults(p, sheet, w, h) }

\* BaseNester._try_place_part_on_sheet of the other subclasses (Genetic,
\* Minkowski, SAT; their sources are not available): by the method's contract,
\* None or the shape at some pose, which need not be a valid one.
AbstractTryPlace(p) ==
    {NoneResult} \cup
    { ShapeAt(x, y, a) : x \in (-1)..2, y \in (-1)..2, a \in AllowedAngles(p) }

TryPlacePartOnSheet(n, p, sheet) ==
    IF n.class = "Gravity" THEN GravityTryPlace(p, sheet, n.bin_width, n.bin_height)
    ELSE AbstractTryPlace(p)

\* A placement accepted although the final validity re-check fails.
AttemptPlacementNoRecheck(result, p, sheet) ==
    IF result.kind = "shape"
    THEN [ok |-> TRUE, sheet |-> AddPart(sheet, PlacedPart(p, result.x, result.y, result.angle))]
    ELSE [ok |-> FALSE, sheet |-> sheet]

\* A rejected attempt that evicts the part accepted last on the sheet.
AttemptPlacementBacktracking(result, p, sheet) ==
    IF result.kind = "shape" /\ IsPlacementValid(sheet, p, result.x, result.y, result.angle)
    THEN [ok |-> TRUE, sheet |-> AddPart(sheet, PlacedPart(p, result.x, result.y, result.angle))]
    ELSE [ok |-> FALSE,
          sheet |-> IF sheet.parts = <<>> THEN sheet
                    ELSE [sheet EXCEPT !.parts = SubSeq(@, 1, Len(@) - 1)]]

\* BaseNester._attempt_placement_on_sheet, given what the strategy returned:
\* the part is added only if the final is_placement_valid re-check passes.
AttemptPlacementOnSheet(result, p, sheet) ==
    IF result.kind = "shape" /\ IsPlacementValid(sheet, p, result.x, result.y, result.angle)
    THEN [ok |-> TRUE, sheet |-> AddPart(sheet, PlacedPart(p, result.x, result.y, result.angle))]
    ELSE [ok |-> FALSE, sheet |-> sheet]

\* ------------------------------------------------------- nesting_logic.nest

\* The selectors the calls are drawn from: two keys of the nester_class table
\* (Gravity, and Minkowski for the subclasses whose strategy is abstract
\* here), the function's default and a name that is no key.
Algorithms == {"Grid Fill", "Bogus", "Gravity", "Minkowski"}

\* nester_class = {...}.get(algorithm)
NesterClass(a) == IF a \in {"Genetic", "Gravity", "Minkowski", "SAT"} THEN a ELSE "None"

SHAPELY_ALGORITHMS == {"Genetic", "Gravity", "Minkowski", "SAT"}

NoNester == [made |-> FALSE, class |-> "None", bin_width |-> 0, bin_height |-> 0,
             rotation_steps |-> 0]

\* BaseNester.__init__ (GravityNester.__init__ adds only option defaults).
MakeNester(class, w, h, rs) ==
    [made |-> TRUE, class |-> class, bin_width |-> w, bin_height |-> h,
     rotation_steps |-> IF rs > 0 THEN rs ELSE 1]

\* The (width, height, rotation_steps) arguments the calls are drawn from:
\* a 2x2 sheet, a sheet of width 0, a sheet of height 0, and rotation_steps 0.
Configurations ==
    { <<2, 2, 1>>, <<0, 2, 1>>, <<2, 0, 1>>, <<1, 1, 0>> }

NoEvent == [kind |-> "none", sheet |-> 0, part |-> 0]
Event(k, sh, p) == [kind |-> k, sheet |-> sh, part |-> p]

NestInit ==
    /\ shapely_installed \in BOOLEAN
    /\ parts \in InputLists
    /\ \E c \in Configurations :
         width = c[1] /\ height = c[2] /\ rotation_steps_arg = c[3]
    /\ algorithm \in Algorithms
    /\ pc = "import"
    /\ SHAPELY_AVAILABLE = FALSE
    /\ raised = ""
    /\ nester = NoNester
    /\ parts_to_place = <<>>
    /\ sheets = <<>>
    /\ unplaced_shapes = <<>>
    /\ original_shape = NoShape
    /\ sheet_idx = 0
    /\ sheet_created = FALSE
    /\ attempted = FALSE
    /\ processed = <<>>
    /\ rejected_by = {}
    /\ last_event = NoEvent

nestVars == <<parts_to_place, sheets, unplaced_shapes, original_shape, sheet_idx>>
histVars == <<sheet_created, attempted, processed, rejected_by, last_event>>

\* Loading nesting_logic: its first import pulls in algorithms.gravity_nester
\* and with it base_nester, whose own first lines import shapely.geometry
\* unguarded; only then does the guarded "import shapely" set SHAPELY_AVAILABLE.
ModuleImport ==
    /\ pc = "import"
    /\ IF shapely_installed
       THEN /\ pc' = "call"
            /\ SHAPELY_AVAILABLE' = TRUE
            /\ raised' = raised
       ELSE /\ pc' = "raised"
            /\ raised' = "ImportError"
            /\ SHAPELY_AVAILABLE' = SHAPELY_AVAILABLE
    /\ UNCHANGED <<inputVars, nester, nestVars, histVars>>
    /\ UNCHANGED outsideNest

\* nest(): selector lookup, dependency check, construction of the nester and
\* the start of nester.nest (copy of the list, empty sheets, the sort).
NestCall ==
    /\ pc = "call"
    /\ IF NesterClass(algorithm) = "None"
       THEN /\ pc' = "raised"
            /\ raised' = "NotImplementedError"
            /\ UNCHANGED <<nester, parts_to_place>>
       ELSE IF algorithm \in SHAPELY_ALGORITHMS /\ ~SHAPELY_AVAILABLE
       THEN /\ pc' = "raised"
            /\ raised' = "NestingDependencyError"
            /\ UNCHANGED <<nester, parts_to_place>>
       ELSE /\ nester' = MakeNester(NesterClass(algorithm), width, height, rotation_steps_arg)
            /\ parts_to_place' = SortPartsByArea(parts)
            /\ pc' = "while"
            /\ raised' = raised
    /\ UNCHANGED <<inputVars, SHAPELY_AVAILABLE, sheets, unplaced_shapes,
                   original_shape, sheet_idx, histVars>>
    /\ UNCHANGED outsideNest

\* while self.parts_to_place: original_shape = self.parts_to_place.pop(0)
PopPart ==
    /\ pc = "while"
    /\ parts_to_place # <<>>
    /\ original_shape' = Head(parts_to_place)
    /\ parts_to_place' = Tail(parts_to_place)
    /\ sheet_idx' = 1
    /\ pc' = "for"
    /\ processed' = Append(processed, Head(parts_to_place))
    /\ rejected_by' = {}
    /\ last_event' = Event("pop", 0, Head(parts_to_place).id)
    /\ UNCHANGED <<inputVars, SHAPELY_AVAILABLE, raised, nester, sheets,
                   unplaced_shapes, sheet_created, attempted>>
    /\ UNCHANGED outsideNest

\* The sheet the for-loop visits next after position i.
NextSheetIdxSkipping(i) == i + 2

NextSheetIdx(i) == i + 1

\* for sheet in self.sheets: if self._attempt_placement_on_sheet(...): break
TryExistingSheet ==
    /\ pc = "for"
    /\ sheet_idx <= Len(sheets)
    /\ \E r \in TryPlacePartOnSheet(nester, original_shape, sheets[sheet_idx]) :
         LET a == AttemptPlacementOnSheet(r, original_shape, sheets[sheet_idx])
         IN  /\ sheets' = [sheets EXCEPT ![sheet_idx] = a.sheet]
             /\ IF r.kind = "raise"
                THEN /\ pc' = "raised"
                     /\ raised' = "AttributeError"
                     /\ sheet_idx' = sheet_idx
                     /\ rejected_by' = rejected_by
                     /\ last_event' = Event("raise", sheets[sheet_idx].id, original_shape.id)
                ELSE IF a.ok
                THEN /\ pc' = "while"
                     /\ raised' = raised
                     /\ sheet_idx' = sheet_idx
                     /\ rejected_by' = rejected_by
                     /\ last_event' = Event("accept", sheets[sheet_idx].id, original_shape.id)
                ELSE /\ pc' = "for"
                     /\ raised' = raised
                     /\ sheet_idx' = NextSheetIdx(sheet_idx)
                     /\ rejected_by' = rejected_by \cup {sheets[sheet_idx].id}
                     /\ last_event' = Event(IF r.kind = "shape" THEN "discard" ELSE "reject",
                                            sheets[sheet_idx].id, original_shape.id)
    /\ attempted' = TRUE
    /\ UNCHANGED <<inputVars, SHAPELY_AVAILABLE, nester, parts_to_place,
                   unplaced_shapes, original_shape, sheet_created, processed>>
    /\ UNCHANGED outsideNest

\* What nest() keeps of a tentative sheet that rejected the part: a loop that
\* appended it regardless.
SheetsAfterNewKeepAlways(shs, a) == Append(shs, a.sheet)

\* if not placed: the tentative sheet is appended only when it took the part.
SheetsAfterNew(shs, a) == IF a.ok THEN Append(shs, a.sheet) ELSE shs

\* A loop that forgets the part a fresh sheet rejected.
UnplacedAfterNewDropping(unpl, a, p) == unpl

\* else: unplaced_shapes.append(original_shape)
UnplacedAfterNew(unpl, a, p) == IF a.ok THEN unpl ELSE Append(unpl, p)

\* if not placed: new_sheet = Sheet(len(self.sheets), ...); attempt; append
\* the sheet on success, else record the part as unplaceable.
TryNewSheet ==
    /\ pc = "for"
    /\ sheet_idx > Len(sheets)
    /\ LET new_sheet == NewSheet(Len(sheets), nester.bin_width, nester.bin_height)
       IN \E r \in TryPlacePartOnSheet(nester, original_shape, new_sheet) :
            LET a == AttemptPlacementOnSheet(r, original_shape, new_sheet)
            IN  IF r.kind = "raise"
                THEN /\ pc' = "raised"
                     /\ raised' = "AttributeError"
                     /\ UNCHANGED <<sheets, unplaced_shapes>>
                     /\ last_event' = Event("raise", new_sheet.id, original_shape.id)
                ELSE /\ pc' = "while"
                     /\ raised' = raised
                     /\ sheets' = SheetsAfterNew(sheets, a)
                     /\ unplaced_shapes' = UnplacedAfterNew(unplaced_shapes, a, original_shape)
                     /\ last_event' = Event(IF a.ok THEN "open" ELSE "unplaced",
                                            new_sheet.id, original_shape.id)
    /\ sheet_created' = TRUE
    /\ attempted' = TRUE
    /\ UNCHANGED <<inputVars, SHAPELY_AVAILABLE, nester, parts_to_place,
                   original_shape, sheet_idx, processed, rejected_by>>
    /\ UNCHANGED outsideNest

\* return self.sheets, unplaced_shapes (and nest()'s own return of them)
NestReturn ==
    /\ pc = "while"
    /\ parts_to_place = <<>>
    /\ pc' = "done"
    /\ last_event' = Event("return", 0, 0)
    /\ UNCHANGED <<inputVars, SHAPELY_AVAILABLE, raised, nester, nestVars,
                   sheet_created, attempted, processed, rejected_by>>
    /\ UNCHANGED outsideNest

\* ---------------------------------- GravityNester._apply_gravity_to_part

\* Most iterations a movement loop is configured with (max_nesting_steps).
MaxSteps == 2

\* Sheets the part moves on: an empty 3x3 sheet, and the same sheet holding a
\* unit square in its bottom-left or its middle cell.
GravitySheets ==
    { NewSheet(0, 3, 3),
      AddPart(NewSheet(0, 3, 3), PlacedPart([id |-> 9, w |-> 1, h |-> 1, rotation_steps |-> 1], 0, 0, 0)),
      AddPart(NewSheet(0, 3, 3), PlacedPart([id |-> 9, w |-> 1, h |-> 1, rotation_steps |-> 1], 1, 1, 0)) }

GravityParts ==
    { [id |-> 1, w |-> 1, h |-> 1, rotation_steps |-> 1],
      [id |-> 1, w |-> 2, h |-> 1, rotation_steps |-> 1] }

\* gravity_direction: the default (0, -1) and the other axis directions.
GravityDirections == { <<0, -1>>, <<-1, 0>>, <<1, 0>>, <<0, 1>> }

\* kwargs step_size, in cells: a cell of the grid is one step wide.
step_size == 1

\* A nester is about to be constructed; the part rests at a valid pose.
GravInit ==
    /\ g_pc = "new"
    /\ g_kwargs_callback \in BOOLEAN
    /\ g_update_callback = "unset"
    /\ g_max_nesting_steps = 0
    /\ g_sheet \in GravitySheets
    /\ g_part \in GravityParts
    /\ g_x \in 0..2
    /\ g_y \in 0..2
    /\ IsPlacementValid(g_sheet, g_part, g_x, g_y, 0)
    /\ g_direction \in GravityDirections
    /\ g_i = 0
    /\ g_moves = 0
    /\ g_callback_calls = 0
    /\ g_raised = ""

\* No gravity nester exists.
GravIdle ==
    /\ g_pc = "idle"
    /\ g_kwargs_callback = FALSE
    /\ g_update_callback = "unset"
    /\ g_max_nesting_steps = 0
    /\ g_sheet = NewSheet(0, 0, 0)
    /\ g_part = NoShape
    /\ g_x = 0 /\ g_y = 0
    /\ g_direction = <<0, -1>>
    /\ g_i = 0
    /\ g_moves = 0
    /\ g_callback_calls = 0
    /\ g_raised = ""

\* What the actions of SpecGravity leave alone.
outsideGravity == <<nestAllVars, nfpVars, fitVars, oxVars, anVars, cancelVars, isoVars, eqVars, shakeVars, moveVars, gaVars>>

\* The attribute self.update_callback after GravityNester.__init__ and
\* BaseNester.__init__: neither assigns it, whatever the kwargs hold.
UpdateCallbackAfterInit(in_kwargs) == "unset"

\* GravityNester(width, height, rotation_steps, **kwargs)
GravityConstruct ==
    /\ g_pc = "new"
    /\ g_pc' = "ready"
    /\ g_update_callback' = UpdateCallbackAfterInit(g_kwargs_callback)
    /\ \E m \in 0..MaxSteps : g_max_nesting_steps' = m
    /\ UNCHANGED <<g_kwargs_callback, g_sheet, g_part, g_x, g_y, g_direction, g_i,
                   g_moves, g_callback_calls, g_raised>>
    /\ UNCHANGED outsideGravity

\* _apply_gravity_to_part is entered: the loop has made no iteration yet.
ApplyGravityCall ==
    /\ g_pc = "ready"
    /\ g_pc' = "loop"
    /\ g_i' = 0
    /\ UNCHANGED <<g_kwargs_callback, g_update_callback, g_max_nesting_steps, g_sheet,
                   g_part, g_x, g_y, g_direction, g_moves, g_callback_calls, g_raised>>
    /\ UNCHANGED outsideGravity

\* One iteration of for _ in range(self.max_nesting_steps): remember the last
\* valid corner, move one step, read self.update_callback (and call it when
\* set), then undo the move and stop if the pose is invalid.
ApplyGravityStep ==
    /\ g_pc = "loop"
    /\ g_i < g_max_nesting_steps
    /\ LET nx == g_x + g_direction[1] * step_size
           ny == g_y + g_direction[2] * step_size
       IN  /\ g_moves' = g_moves + 1
           /\ g_i' = g_i + 1
           /\ IF g_update_callback = "unset"
              THEN /\ g_raised' = "AttributeError"
                   /\ g_pc' = "raised"
                   /\ g_x' = nx /\ g_y' = ny
                   /\ g_callback_calls' = g_callback_calls
              ELSE /\ g_raised' = g_raised
                   /\ g_callback_calls' =
                        IF g_update_callback = "callable" THEN g_callback_calls + 1
                        ELSE g_callback_calls
                   /\ IF IsPlacementValid(g_sheet, g_part, nx, ny, 0)
                      THEN g_x' = nx /\ g_y' = ny /\ g_pc' = "loop"
                      ELSE g_x' = g_x /\ g_y' = g_y /\ g_pc' = "returned"
    /\ UNCHANGED <<g_kwargs_callback, g_update_callback, g_max_nesting_steps, g_sheet,
                   g_part, g_direction>>
    /\ UNCHANGED outsideGravity

\* The loop has run max_nesting_steps iterations without a collision.
ApplyGravityReturn ==
    /\ g_pc = "loop"
    /\ g_i >= g_max_nesting_steps
    /\ g_pc' = "returned"
    /\ UNCHANGED <<g_kwargs_callback, g_update_callback, g_max_nesting_steps, g_sheet,
                   g_part, g_x, g_y, g_direction, g_i, g_moves, g_callback_calls, g_raised>>
    /\ UNCHANGED outsideGravity

\* ------------------------------------------------------------ MinkowskiEngine
\* get_global_nfp_for and the pairwise-NFP cache. One candidate part at one
\* angle is queried against one sheet, so the sheet's cache has one key; the
\* placed parts lie at angle 0, so a pair's cache key is decided by the placed
\* part's label. A polygon is the set of the placed-part indices whose
\* translated NFP it unions.

\* Most parts the sheet comes to hold.
MaxSheetParts == 2

\* Most invocations of the geometry routines (CPU Minkowski sum, GPU kernel).
MaxCalls == 2

\* Threads calling get_global_nfp_for.
NfpThreads == {"t1", "t2"}

\* Labels of the master shapes of the placed parts.
Labels == {"A", "B"}

\* What the geometry of a pair yields: a polygon with positive area, nothing,
\* or an exception.
GeometryOutcomes == {"poly", "empty", "raise"}

\* Shape.nfp_cache.get(key) of a key never stored: None.
NoData == [kind |-> "absent", obj |-> 0]

\* The nfp_data a computation builds; obj tells the objects apart.
\* {"polygon": ...} / {} / {'error': str(e)}
DataOf(outcome, id) ==
    [kind |-> IF outcome = "poly" THEN "poly"
              ELSE IF outcome = "empty" THEN "empty" ELSE "error",
     obj |-> id]

\* A truth test that only a polygon passes.
TruthyPolygonOnly(d) == d.kind = "poly"

\* Python truth value of nfp_data: None and the empty dict are false.
Truthy(d) == d.kind \in {"poly", "error"}

\* sheet.nfp_cache before the key is created, and the entry lines 62-67 create.
NoEntry == [exists |-> FALSE, polygon |-> {}, last_part_idx |-> 0]

FreshEntry == [exists |-> TRUE, polygon |-> {}, last_part_idx |-> 0]

\* The locals of a thread that is not inside a query.
NoLocals == [parts_to_process |-> <<>>, k |-> 0, new_polys |-> {},
             nfp_data |-> NoData, found |-> NoData, fallback |-> FALSE]

\* nfp_cache_key of the pair the thread's loop is at.
PairKey(t) == sheet_parts[th[t].parts_to_process[th[t].k]]

\* No engine exists.
NfpIdle ==
    /\ gpu_requested = FALSE
    /\ gpu_available = FALSE
    /\ use_gpu = FALSE
    /\ geom = [l \in Labels |-> "poly"]
    /\ gpu_geom = "raise"
    /\ shape_nfp_cache = [l \in Labels |-> NoData]
    /\ geometry_calls = 0
    /\ sheet_parts = <<>>
    /\ sheet_nfp_cache = NoEntry
    /\ th_pc = [t \in NfpThreads |-> "off"]
    /\ th = [t \in NfpThreads |-> NoLocals]
    /\ th_ret = [t \in NfpThreads |-> "none"]

\* MinkowskiEngine.__init__, line 27:
\* self.use_gpu = use_gpu and nfp_gpu_taichi and nfp_gpu_taichi.is_available()
UseGpuAfterInit(requested, available) == requested /\ available

\* An engine and an empty sheet; the pair cache is empty. With use_gpu false
\* the kernel is never called.
NfpInit ==
    /\ gpu_requested \in BOOLEAN
    /\ gpu_available \in BOOLEAN
    /\ use_gpu = UseGpuAfterInit(gpu_requested, gpu_available)
    /\ geom \in [Labels -> GeometryOutcomes]
    /\ gpu_geom \in (IF use_gpu THEN GeometryOutcomes ELSE {"raise"})
    /\ shape_nfp_cache = [l \in Labels |-> NoData]
    /\ geometry_calls = 0
    /\ sheet_parts = <<>>
    /\ sheet_nfp_cache = NoEntry
    /\ th_pc = [t \in NfpThreads |-> "idle"]
    /\ th = [t \in NfpThreads |-> NoLocals]
    /\ th_ret = [t \in NfpThreads |-> "none"]

\* What the actions of SpecNfp leave alone.
outsideNfp == <<nestAllVars, gravVars, fitVars, oxVars, anVars, cancelVars, isoVars, eqVars, shakeVars, moveVars, gaVars>>

\* The nester places one more part on the sheet.
SheetAddPart ==
    /\ Len(sheet_parts) < MaxSheetParts
    /\ \E l \in Labels : sheet_parts' = Append(sheet_parts, l)
    /\ UNCHANGED <<gpu_requested, gpu_available, use_gpu, geom, gpu_geom,
                   shape_nfp_cache, geometry_calls, sheet_nfp_cache,
                   th_pc, th, th_ret>>
    /\ UNCHANGED outsideNfp

\* get_global_nfp_for, lines 57-73: under the sheet's lock create the entry
\* if the key is missing, and return it at once when it is up to date.
QueryBegin(t) ==
    /\ th_pc[t] = "idle"
    /\ LET entry == IF sheet_nfp_cache.exists THEN sheet_nfp_cache ELSE FreshEntry
       IN  /\ sheet_nfp_cache' = entry
           /\ IF entry.last_part_idx >= Len(sheet_parts)
              THEN /\ th_ret' = [th_ret EXCEPT ![t] = "entry"]
                   /\ th_pc' = th_pc
              ELSE /\ th_ret' = [th_ret EXCEPT ![t] = "none"]
                   /\ th_pc' = [th_pc EXCEPT ![t] = "slice"]
    /\ UNCHANGED <<gpu_requested, gpu_available, use_gpu, geom, gpu_geom,
                   shape_nfp_cache, geometry_calls, sheet_parts, th>>
    /\ UNCHANGED outsideNfp

\* Lines 76-80, outside the lock: new_polys = [] and
\* parts_to_process = sheet.parts[entry['last_part_idx']:]
Snapshot(t) ==
    /\ th_pc[t] = "slice"
    /\ th' = [th EXCEPT ![t] =
                [NoLocals EXCEPT
                   !.parts_to_process =
                       [i \in 1..(Len(sheet_parts) - sheet_nfp_cache.last_part_idx)
                           |-> sheet_nfp_cache.last_part_idx + i],
                   !.k = 1]]
    /\ th_pc' = [th_pc EXCEPT ![t] = "loop"]
    /\ UNCHANGED <<gpu_requested, gpu_available, use_gpu, geom, gpu_geom,
                   shape_nfp_cache, geometry_calls, sheet_parts,
                   sheet_nfp_cache, th_ret>>
    /\ UNCHANGED outsideNfp

\* Where a pair goes after Shape.nfp_cache.get found d (lines 103-114).
AfterLookup(d) ==
    IF Truthy(d) THEN "check" ELSE IF use_gpu THEN "gpu_lookup" ELSE "cpu_lookup"

\* Lines 82-114: the loop's next part; read the pair cache under its lock and
\* choose between the cached data and a calculation. The loop's end leads to
\* the update of the entry.
LoopLookup(t) ==
    /\ th_pc[t] = "loop"
    /\ IF th[t].k > Len(th[t].parts_to_process)
       THEN /\ th_pc' = [th_pc EXCEPT ![t] = "update"]
            /\ th' = th
       ELSE LET d == shape_nfp_cache[PairKey(t)]
            IN  /\ th' = [th EXCEPT ![t].nfp_data = d, ![t].found = d]
                /\ th_pc' = [th_pc EXCEPT ![t] = AfterLookup(d)]
    /\ UNCHANGED <<gpu_requested, gpu_available, use_gpu, geom, gpu_geom,
                   shape_nfp_cache, geometry_calls, sheet_parts,
                   sheet_nfp_cache, th_ret>>
    /\ UNCHANGED outsideNfp

\* _calculate_and_cache_nfp, lines 164-167: return the cached data if it is
\* true, else go on to compute.
CalcLookup(t) ==
    /\ th_pc[t] = "cpu_lookup"
    /\ LET cached_nfp_data == shape_nfp_cache[PairKey(t)]
       IN  IF Truthy(cached_nfp_data)
           THEN /\ th' = [th EXCEPT ![t].nfp_data = cached_nfp_data]
                /\ th_pc' = [th_pc EXCEPT ![t] = "check"]
           ELSE /\ th' = th
                /\ th_pc' = [th_pc EXCEPT ![t] = "cpu_compute"]
    /\ UNCHANGED <<gpu_requested, gpu_available, use_gpu, geom, gpu_geom,
                   shape_nfp_cache, geometry_calls, sheet_parts,
                   sheet_nfp_cache, th_ret>>
    /\ UNCHANGED outsideNfp

\* _calculate_and_cache_nfp, lines 169-240: the Minkowski sum and what is
\* built from it; an empty result becomes {}, an exception {'error': ...}.
CalcCompute(t) ==
    /\ th_pc[t] = "cpu_compute"
    /\ geometry_calls < MaxCalls
    /\ geometry_calls' = geometry_calls + 1
    /\ th' = [th EXCEPT ![t].nfp_data = DataOf(geom[PairKey(t)], geometry_calls + 1)]
    /\ th_pc' = [th_pc EXCEPT ![t] = "cpu_store"]
    /\ UNCHANGED <<gpu_requested, gpu_available, use_gpu, geom, gpu_geom,
                   shape_nfp_cache, sheet_parts, sheet_nfp_cache, th_ret>>
    /\ UNCHANGED outsideNfp

\* _calculate_and_cache_nfp, lines 242-245: store under the lock and return.
CalcStore(t) ==
    /\ th_pc[t] = "cpu_store"
    /\ shape_nfp_cache' = [shape_nfp_cache EXCEPT ![PairKey(t)] = th[t].nfp_data]
    /\ th_pc' = [th_pc EXCEPT ![t] = "check"]
    /\ UNCHANGED <<gpu_requested, gpu_available, use_gpu, geom, gpu_geom,
                   geometry_calls, sheet_parts, sheet_nfp_cache, th, th_ret>>
    /\ UNCHANGED outsideNfp

\* _calculate_and_cache_nfp_gpu, lines 251-254.
GpuLookup(t) ==
    /\ th_pc[t] = "gpu_lookup"
    /\ LET cached_nfp_data == shape_nfp_cache[PairKey(t)]
       IN  IF Truthy(cached_nfp_data)
           THEN /\ th' = [th EXCEPT ![t].nfp_data = cached_nfp_data]
                /\ th_pc' = [th_pc EXCEPT ![t] = "check"]
           ELSE /\ th' = th
                /\ th_pc' = [th_pc EXCEPT ![t] = "gpu_compute"]
    /\ UNCHANGED <<gpu_requested, gpu_available, use_gpu, geom, gpu_geom,
                   shape_nfp_cache, geometry_calls, sheet_parts,
                   sheet_nfp_cache, th_ret>>
    /\ UNCHANGED outsideNfp

\* A GPU path whose failure is final: the exception becomes the pair's error
\* sentinel and the CPU routine is not called.
AfterGpuComputeNoFallback(outcome, old, id) ==
    [pc |-> "gpu_store", nfp_data |-> DataOf(outcome, id), fallback |-> outcome = "raise"]

\* Lines 256-402, where the GPU attempt leads and with which nfp_data: the
\* kernel's result goes on to be stored; an exception is caught and
\* _calculate_and_cache_nfp is called with the same arguments.
AfterGpuCompute(outcome, old, id) ==
    IF outcome = "raise"
    THEN [pc |-> "cpu_lookup", nfp_data |-> old, fallback |-> TRUE]
    ELSE [pc |-> "gpu_store", nfp_data |-> DataOf(outcome, id), fallback |-> FALSE]

\* _calculate_and_cache_nfp_gpu, lines 256-402: the kernel yields hulls, or
\* none, or the attempt raises and the CPU routine is called instead.
GpuCompute(t) ==
    /\ th_pc[t] = "gpu_compute"
    /\ geometry_calls < MaxCalls
    /\ geometry_calls' = geometry_calls + 1
    /\ LET r == AfterGpuCompute(gpu_geom, th[t].nfp_data, geometry_calls + 1)
       IN  /\ th' = [th EXCEPT ![t].nfp_data = r.nfp_data, ![t].fallback = r.fallback]
           /\ th_pc' = [th_pc EXCEPT ![t] = r.pc]
    /\ UNCHANGED <<gpu_requested, gpu_available, use_gpu, geom, gpu_geom,
                   shape_nfp_cache, sheet_parts, sheet_nfp_cache, th_ret>>
    /\ UNCHANGED outsideNfp

\* _calculate_and_cache_nfp_gpu, lines 404-407.
GpuStore(t) ==
    /\ th_pc[t] = "gpu_store"
    /\ shape_nfp_cache' = [shape_nfp_cache EXCEPT ![PairKey(t)] = th[t].nfp_data]
    /\ th_pc' = [th_pc EXCEPT ![t] = "check"]
    /\ UNCHANGED <<gpu_requested, gpu_available, use_gpu, geom, gpu_geom,
                   geometry_calls, sheet_parts, sheet_nfp_cache, th, th_ret>>
    /\ UNCHANGED outsideNfp

\* Lines 116-129: an error sentinel ends the query with None; a polygon is
\* moved to the placed part's pose and appended to new_polys.
Check(t) ==
    /\ th_pc[t] = "check"
    /\ LET d == th[t].nfp_data
       IN  IF d.kind = "error"
           THEN /\ th' = [th EXCEPT ![t] = NoLocals]
                /\ th_ret' = [th_ret EXCEPT ![t] = "None"]
                /\ th_pc' = [th_pc EXCEPT ![t] = "idle"]
           ELSE /\ th' = [th EXCEPT
                            ![t].new_polys =
                                IF d.kind = "poly"
                                THEN @ \cup {th[t].parts_to_process[th[t].k]} ELSE @,
                            ![t].k = @ + 1,
                            ![t].nfp_data = NoData,
                            ![t].found = NoData,
                            ![t].fallback = FALSE]
                /\ th_ret' = th_ret
                /\ th_pc' = [th_pc EXCEPT ![t] = "loop"]
    /\ UNCHANGED <<gpu_requested, gpu_available, use_gpu, geom, gpu_geom,
                   shape_nfp_cache, geometry_calls, sheet_parts,
                   sheet_nfp_cache>>
    /\ UNCHANGED outsideNfp

\* An update that unions the batch and leaves the watermark where it was.
UpdateKeepsWatermark(t) ==
    /\ th_pc[t] = "update"
    /\ sheet_nfp_cache' = [sheet_nfp_cache EXCEPT !.polygon = @ \cup th[t].new_polys]
    /\ th' = [th EXCEPT ![t] = NoLocals]
    /\ th_ret' = [th_ret EXCEPT ![t] = "entry"]
    /\ th_pc' = [th_pc EXCEPT ![t] = "idle"]
    /\ UNCHANGED <<gpu_requested, gpu_available, use_gpu, geom, gpu_geom,
                   shape_nfp_cache, geometry_calls, sheet_parts>>
    /\ UNCHANGED outsideNfp

\* Lines 131-159: under the sheet's lock union the batch into the entry and
\* set the watermark to the sheet's current number of parts.
Update(t) ==
    /\ th_pc[t] = "update"
    /\ sheet_nfp_cache' = [sheet_nfp_cache EXCEPT
                             !.polygon = @ \cup th[t].new_polys,
                             !.last_part_idx = Len(sheet_parts)]
    /\ th' = [th EXCEPT ![t] = NoLocals]
    /\ th_ret' = [th_ret EXCEPT ![t] = "entry"]
    /\ th_pc' = [th_pc EXCEPT ![t] = "idle"]
    /\ UNCHANGED <<gpu_requested, gpu_available, use_gpu, geom, gpu_geom,
                   shape_nfp_cache, geometry_calls, sheet_parts>>
    /\ UNCHANGED outsideNfp

\* ------------------------------------------ LayoutManager.calculate_efficiency
\* Two layouts on the same sheet size are scored. A sheet is the list of its
\* parts' bounding boxes (x, y, w, h), as bounding_box() returns them.

\* Most sheets of a layout.
MaxLayoutSheets == 2

Box(x, y, w, h) == [x |-> x, y |-> y, w |-> w, h |-> h]

\* Sheets as the nester returns them: at least one part each, every part
\* inside a 2 x 2 sheet.
LayoutSheets ==
    { <<Box(0, 0, 2, 2)>>,
      <<Box(0, 0, 1, 1)>>,
      <<Box(1, 1, 1, 1)>>,
      <<Box(0, 0, 1, 1), Box(1, 1, 1, 1)>>,
      <<Box(0, 1, 2, 1)>> }

\* float('inf') and a finite float.
Inf == [inf |-> TRUE, val |-> 0]

Fin(v) == [inf |-> FALSE, val |-> v]

\* a < b on such values.
FitnessLess(a, b) == ~a.inf /\ (b.inf \/ a.val < b.val)

\* Layout.__init__: no fitness yet.
NewLayout(sheet_list) == [sheets |-> sheet_list, fitness |-> Inf, efficiency |-> 0]

SetMin(S) == CHOOSE m \in S : \A e \in S : m <= e

SetMax(S) == CHOOSE m \in S : \A e \in S : m >= e

\* Lines 198-202: area of the bounding box of a sheet's parts.
BoundingBoxArea(ps) ==
    LET I == 1..Len(ps)
        min_x == SetMin({ ps[i].x : i \in I })
        min_y == SetMin({ ps[i].y : i \in I })
        max_x == SetMax({ ps[i].x + ps[i].w : i \in I })
        max_y == SetMax({ ps[i].y + ps[i].h : i \in I })
    IN  (max_x - min_x) * (max_y - min_y)

\* Lines 178-182: sum of the part areas of the sheets.
RECURSIVE SumBoxes(_, _)
SumBoxes(ps, n) == IF n = 0 THEN 0 ELSE ps[n].w * ps[n].h + SumBoxes(ps, n - 1)

RECURSIVE TotalPartsArea(_, _)
TotalPartsArea(sheet_list, n) ==
    IF n = 0 THEN 0
    ELSE SumBoxes(sheet_list[n], Len(sheet_list[n])) + TotalPartsArea(sheet_list, n - 1)

\* A score in which a sheet weighs one unit instead of a sheet's area.
FitnessOfUnweighted(sheet_list, sheet_width, sheet_height) ==
    Len(sheet_list) + BoundingBoxArea(sheet_list[Len(sheet_list)])

\* Lines 192-204: the sheets' total area plus the bounding-box area of the
\* last sheet's parts.
FitnessOf(sheet_list, sheet_width, sheet_height) ==
    LET last_sheet == sheet_list[Len(sheet_list)]
    IN  Len(sheet_list) * sheet_width * sheet_height
        + (IF last_sheet # <<>> THEN BoundingBoxArea(last_sheet) ELSE 0)

\* Lines 185-188: efficiency in whole percent.
EfficiencyOf(sheet_list, sheet_width, sheet_height) ==
    LET total_sheet_area == Len(sheet_list) * sheet_width * sheet_height
    IN  IF total_sheet_area > 0
        THEN (TotalPartsArea(sheet_list, Len(sheet_list)) * 100) \div total_sheet_area
        ELSE 0

FitLayouts ==
    UNION { [1..n -> LayoutSheets] : n \in 0..MaxLayoutSheets }

FitInit ==
    /\ fit_sheet_width \in 2..3
    /\ fit_sheet_height \in 2..3
    /\ fit_layouts \in [1..2 -> { NewLayout(l) : l \in FitLayouts }]
    /\ fit_done = [i \in 1..2 |-> FALSE]

\* No layout is being scored.
FitIdle ==
    /\ fit_sheet_width = 0
    /\ fit_sheet_height = 0
    /\ fit_layouts = [i \in 1..2 |-> NewLayout(<<>>)]
    /\ fit_done = [i \in 1..2 |-> FALSE]

\* What the actions of SpecFitness leave alone.
outsideFitness == <<nestAllVars, gravVars, nfpVars, oxVars, anVars, cancelVars, isoVars, eqVars, shakeVars, moveVars, gaVars>>

\* calculate_efficiency(layout, sheet_width, sheet_height): a layout without
\* sheets returns (inf, 0.0) and is left as it is; otherwise fitness and
\* efficiency are stored on the layout.
CalculateEfficiency(i) ==
    /\ ~fit_done[i]
    /\ fit_done' = [fit_done EXCEPT ![i] = TRUE]
    /\ LET layout == fit_layouts[i]
       IN  IF layout.sheets = <<>>
           THEN fit_layouts' = fit_layouts
           ELSE fit_layouts' =
                  [fit_layouts EXCEPT
                     ![i].fitness =
                         Fin(FitnessOf(layout.sheets, fit_sheet_width, fit_sheet_height)),
                     ![i].efficiency =
                         EfficiencyOf(layout.sheets, fit_sheet_width, fit_sheet_height)]
    /\ UNCHANGED <<fit_sheet_width, fit_sheet_height>>
    /\ UNCHANGED outsideFitness

\* ------------------------------------------- genetic_utils.ordered_crossover
\* A chromosome is the list of its parts' ids; the ids are 1..n.

\* Most parts of a chromosome.
MaxChromosome == 3

\* Orderings of the parts 1..n.
Orderings(n) ==
    { s \in [1..n -> 1..n] : \A i, j \in 1..n : i # j => s[i] # s[j] }

\* Lines 43-46: the slices random.sample can give; the whole list when the
\* size is at most 1.
Slices(size) ==
    IF size > 1
    THEN { <<a, b>> \in (0..(size - 1)) \X (0..(size - 1)) : a < b }
    ELSE { <<0, size>> }

\* A fill that takes parent2's next part whether or not the child holds it.
NextP2IndexNoSkip(parent2, p2_index, child_ids_set) == p2_index

\* Lines 57-58: the first index from p2_index on whose part is not in
\* child_ids_set; Len(parent2) when there is none (parent2[p2_index] is then
\* out of range).
RECURSIVE NextP2Index(_, _, _)
NextP2Index(parent2, p2_index, child_ids_set) ==
    IF p2_index >= Len(parent2) THEN Len(parent2)
    ELSE IF parent2[p2_index + 1] \in child_ids_set
         THEN NextP2Index(parent2, p2_index + 1, child_ids_set)
         ELSE p2_index

OxInit ==
    /\ ox_pc = "start"
    /\ \E n \in 0..MaxChromosome :
         /\ ox_parent1 \in Orderings(n)
         /\ ox_parent2 \in Orderings(n)
    /\ ox_start = 0 /\ ox_end = 0
    /\ ox_child_p = <<>>
    /\ ox_child_ids_set = {}
    /\ ox_i = 0
    /\ ox_p2_index = 0
    /\ ox_raised = ""

\* No crossover is under way.
OxIdle ==
    /\ ox_pc = "idle"
    /\ ox_parent1 = <<>>
    /\ ox_parent2 = <<>>
    /\ ox_start = 0 /\ ox_end = 0
    /\ ox_child_p = <<>>
    /\ ox_child_ids_set = {}
    /\ ox_i = 0
    /\ ox_p2_index = 0
    /\ ox_raised = ""

\* What the actions of SpecCrossover leave alone.
outsideCrossover == <<nestAllVars, gravVars, nfpVars, fitVars, anVars, cancelVars, isoVars, eqVars, shakeVars, moveVars, gaVars>>

\* Lines 37-46: child_p = [None] * size and the choice of the slice.
OxChooseSlice ==
    /\ ox_pc = "start"
    /\ LET size == Len(ox_parent1)
       IN  /\ ox_child_p' = [i \in 1..size |-> 0]
           /\ \E sl \in Slices(size) : ox_start' = sl[1] /\ ox_end' = sl[2]
    /\ ox_pc' = "copy"
    /\ UNCHANGED <<ox_parent1, ox_parent2, ox_child_ids_set, ox_i, ox_p2_index, ox_raised>>
    /\ UNCHANGED outsideCrossover

\* Lines 49-53: child_p[start:end] = parent1[start:end], the set of the ids
\* copied, p2_index = 0.
OxCopySlice ==
    /\ ox_pc = "copy"
    /\ ox_child_p' = [i \in 1..Len(ox_child_p) |->
                        IF ox_start < i /\ i <= ox_end THEN ox_parent1[i] ELSE ox_child_p[i]]
    /\ ox_child_ids_set' = { ox_parent1[i] : i \in (ox_start + 1)..ox_end }
    /\ ox_p2_index' = 0
    /\ ox_i' = 0
    /\ ox_pc' = "fill"
    /\ UNCHANGED <<ox_parent1, ox_parent2, ox_start, ox_end, ox_raised>>
    /\ UNCHANGED outsideCrossover

\* Lines 54-60: one iteration of for i in range(size); an empty position
\* takes parent2's next part that is not in child_ids_set.
OxFillStep ==
    /\ ox_pc = "fill"
    /\ ox_i < Len(ox_child_p)
    /\ IF ox_child_p[ox_i + 1] # 0
       THEN /\ ox_i' = ox_i + 1
            /\ UNCHANGED <<ox_child_p, ox_p2_index, ox_raised, ox_pc>>
       ELSE LET j == NextP2Index(ox_parent2, ox_p2_index, ox_child_ids_set)
            IN  IF j >= Len(ox_parent2)
                THEN /\ ox_raised' = "IndexError"
                     /\ ox_pc' = "raised"
                     /\ ox_p2_index' = j
                     /\ UNCHANGED <<ox_child_p, ox_i>>
                ELSE /\ ox_child_p' = [ox_child_p EXCEPT ![ox_i + 1] = ox_parent2[j + 1]]
                     /\ ox_p2_index' = j + 1
                     /\ ox_i' = ox_i + 1
                     /\ UNCHANGED <<ox_raised, ox_pc>>
    /\ UNCHANGED <<ox_parent1, ox_parent2, ox_start, ox_end, ox_child_ids_set>>
    /\ UNCHANGED outsideCrossover

\* Line 62: return child_p
OxReturn ==
    /\ ox_pc = "fill"
    /\ ox_i >= Len(ox_child_p)
    /\ ox_pc' = "done"
    /\ UNCHANGED <<ox_parent1, ox_parent2, ox_start, ox_end, ox_child_p,
                   ox_child_ids_set, ox_i, ox_p2_index, ox_raised>>
    /\ UNCHANGED outsideCrossover

\* ---------------------------------- AnnealController._run_annealing_on_sheet
\* A solution is one of a few lists of placements, told apart by a number;
\* _calculate_cost is a function of the solution. Temperatures are whole
\* numbers and cooling_rate is 1/2 (rounding down) or 1.

\* Largest max_temp_steps (iterations per temperature).
MaxTempSteps == 2

\* Largest total_max_iterations.
MaxIterations == 2

\* The solutions; two of them cost the same.
Solutions == 1..4

\* _calculate_cost of each solution.
CalculateCost(s) == <<2, 1, 1, 0>>[s]

\* _get_random_neighbor: a deep copy of the solution with one part moved.
RandomNeighbors(s) == Solutions

AnnealParams ==
    [temp_initial : {2, 4}, temp_final : {0, 1}, cooling_rate : {"half", "one"},
     max_temp_steps : 0..MaxTempSteps, total_max_iterations : 0..MaxIterations]

\* temp *= cooling_rate
Cool(temp, cooling_rate) == IF cooling_rate = "half" THEN temp \div 2 ELSE temp

\* random.random() < math.exp(-delta_cost / temp), evaluated for
\* delta_cost >= 0 only: certain for delta_cost = 0 (random() < 1.0), open
\* otherwise.
MetropolisDraws(delta_cost) == IF delta_cost = 0 THEN {TRUE} ELSE BOOLEAN

\* An acceptance rule that takes every neighbour.
AcceptsAlways(delta_cost, draw) == TRUE

\* Line 157: delta_cost < 0 or random.random() < math.exp(-delta_cost / temp)
Accepts(delta_cost, draw) == delta_cost < 0 \/ draw

NoLast == [new_cost |-> 0, prev_cost |-> 0, draw |-> FALSE, accepted |-> FALSE]

AnInit ==
    /\ an_pc = "start"
    /\ an_params \in AnnealParams
    /\ an_has_parts \in BOOLEAN
    /\ an_current_solution = 0
    /\ an_best_solution = 0
    /\ an_current_cost = 0
    /\ an_best_cost = 0
    /\ an_temp = 0
    /\ an_total_iterations = 0
    /\ an_k = 0
    /\ an_last = NoLast

\* No annealing run is under way.
AnIdle ==
    /\ an_pc = "idle"
    /\ an_params = [temp_initial |-> 2, temp_final |-> 0, cooling_rate |-> "half",
                    max_temp_steps |-> 0, total_max_iterations |-> 0]
    /\ an_has_parts = FALSE
    /\ an_current_solution = 0
    /\ an_best_solution = 0
    /\ an_current_cost = 0
    /\ an_best_cost = 0
    /\ an_temp = 0
    /\ an_total_iterations = 0
    /\ an_k = 0
    /\ an_last = NoLast

\* What the actions of SpecAnneal leave alone.
outsideAnneal == <<nestAllVars, gravVars, nfpVars, fitVars, oxVars, cancelVars, isoVars, eqVars, shakeVars, moveVars, gaVars>>

\* Lines 131-149: nothing to anneal returns at once; otherwise a random
\* solution, its deep copy as the best one, their cost, the initial
\* temperature.
AnnealStart ==
    /\ an_pc = "start"
    /\ IF ~an_has_parts
       THEN /\ an_pc' = "done"
            /\ UNCHANGED <<an_current_solution, an_best_solution, an_current_cost,
                           an_best_cost, an_temp>>
       ELSE /\ an_pc' = "while"
            /\ \E s \in Solutions :
                 /\ an_current_solution' = s
                 /\ an_best_solution' = s
                 /\ an_current_cost' = CalculateCost(s)
                 /\ an_best_cost' = CalculateCost(s)
            /\ an_temp' = an_params.temp_initial
    /\ UNCHANGED <<an_params, an_has_parts, an_total_iterations, an_k, an_last>>
    /\ UNCHANGED outsideAnneal

\* Line 150: while temp > temp_final and total_iterations < total_max_iterations
AnnealWhile ==
    /\ an_pc = "while"
    /\ IF an_temp > an_params.temp_final
          /\ an_total_iterations < an_params.total_max_iterations
       THEN an_pc' = "for" /\ an_k' = 0
       ELSE an_pc' = "done" /\ an_k' = an_k
    /\ UNCHANGED <<an_params, an_has_parts, an_current_solution, an_best_solution,
                   an_current_cost, an_best_cost, an_temp, an_total_iterations, an_last>>
    /\ UNCHANGED outsideAnneal

\* Lines 151-163: one iteration of for _ in range(max_temp_steps).
AnnealStep ==
    /\ an_pc = "for"
    /\ an_k < an_params.max_temp_steps
    /\ an_k' = an_k + 1
    /\ an_total_iterations' = an_total_iterations + 1
    /\ \E new_solution \in RandomNeighbors(an_current_solution) :
         LET new_cost == CalculateCost(new_solution)
             delta_cost == new_cost - an_current_cost
         IN  \E draw \in (IF delta_cost < 0 THEN {FALSE} ELSE MetropolisDraws(delta_cost)) :
               /\ an_last' = [new_cost |-> new_cost, prev_cost |-> an_current_cost,
                              draw |-> draw, accepted |-> Accepts(delta_cost, draw)]
               /\ IF Accepts(delta_cost, draw)
                  THEN /\ an_current_solution' = new_solution
                       /\ an_current_cost' = new_cost
                       /\ IF new_cost < an_best_cost
                          THEN /\ an_best_solution' = new_solution
                               /\ an_best_cost' = new_cost
                          ELSE UNCHANGED <<an_best_solution, an_best_cost>>
                  ELSE UNCHANGED <<an_current_solution, an_current_cost,
                                   an_best_solution, an_best_cost>>
    /\ UNCHANGED <<an_pc, an_params, an_has_parts, an_temp>>
    /\ UNCHANGED outsideAnneal

\* Line 165: the for loop is over; temp *= cooling_rate
AnnealCool ==
    /\ an_pc = "for"
    /\ an_k >= an_params.max_temp_steps
    /\ an_temp' = Cool(an_temp, an_params.cooling_rate)
    /\ an_pc' = "while"
    /\ UNCHANGED <<an_params, an_has_parts, an_current_solution, an_best_solution,
                   an_current_cost, an_best_cost, an_total_iterations, an_k, an_last>>
    /\ UNCHANGED outsideAnneal

\* --------------------------------------------------------------- cancellation
\* The caller may ask a running nest() to stop. BaseNester.nest and
\* _anneal_part read no flag, so the request changes nothing they do.

CancelInit == cancel_requested = FALSE

\* Nobody asks for cancellation.
CancelIdle == cancel_requested = FALSE

\* What a cancellation request leaves alone.
outsideCancel == <<nestAllVars, gravVars, nfpVars, fitVars, oxVars, anVars, isoVars, eqVars, shakeVars, moveVars, gaVars>>

\* The caller requests cancellation while the packing loop runs.
RequestCancel ==
    /\ pc \in {"while", "for"}
    /\ ~cancel_requested
    /\ cancel_requested' = TRUE
    /\ UNCHANGED outsideCancel

\* ------------------------------------------------ nest(): the caller's objects
\* The part objects are mutable: a placement attempt moves and rotates the
\* object it is given. nest() hands the nester either the caller's list or a
\* deep copy of it.

MaxIsoParts == 2

IsoPositions == {<<0, 0>>, <<1, 0>>, <<0, 1>>}

IsoAngles == {0, 90}

Poses == [pos : IsoPositions, angle : IsoAngles]

\* The objects of the list the caller passes.
CallerObjects == 1..MaxIsoParts

\* The object copy.deepcopy creates for object o.
CopyOf(o) == o + MaxIsoParts

Objects == 1..(2 * MaxIsoParts)

\* An object that does not exist yet.
NoPose == [pos |-> <<-1, -1>>, angle |-> -1]

\* The caller's list.
CallerParts == [i \in 1..MaxIsoParts |-> i]

\* nest() handing the nester the caller's list, whatever kwargs holds.
PartsToProcessShared(has_callback, caller_parts) == caller_parts

\* parts_to_process: the caller's list when 'update_callback' is a key of
\* kwargs, a deep copy (new objects) otherwise.
PartsToProcess(has_callback, caller_parts) ==
    IF has_callback
    THEN caller_parts
    ELSE [i \in 1..Len(caller_parts) |-> CopyOf(caller_parts[i])]

\* The heap once parts_to_process exists: a new object starts with the pose
\* of the object it copies.
HeapWith(heap, caller_parts, to_process) ==
    [o \in Objects |->
        IF \E i \in 1..Len(caller_parts) : to_process[i] = o /\ caller_parts[i] # o
        THEN heap[caller_parts[CHOOSE i \in 1..Len(caller_parts) : to_process[i] = o]]
        ELSE heap[o]]

IsoInit ==
    /\ iso_pc = "call"
    /\ iso_has_callback \in BOOLEAN
    /\ iso_heap \in {h \in [Objects -> Poses \cup {NoPose}] :
                        \A o \in Objects : h[o] = NoPose <=> o \notin CallerObjects}
    /\ iso_before = iso_heap
    /\ iso_parts_to_process = <<>>

\* nest() is not called.
IsoIdle ==
    /\ iso_pc = "idle"
    /\ iso_has_callback = FALSE
    /\ iso_heap = [o \in Objects |-> NoPose]
    /\ iso_before = iso_heap
    /\ iso_parts_to_process = <<>>

\* What a nest() call on the caller's objects leaves alone.
outsideIsolation == <<nestAllVars, gravVars, nfpVars, fitVars, oxVars, anVars, cancelVars, eqVars, shakeVars, moveVars, gaVars>>

\* nest() up to the call of nester.nest: parts_to_process is chosen.
IsoNestCall ==
    /\ iso_pc = "call"
    /\ iso_parts_to_process' = PartsToProcess(iso_has_callback, CallerParts)
    /\ iso_heap' = HeapWith(iso_heap, CallerParts, iso_parts_to_process')
    /\ iso_pc' = "while"
    /\ UNCHANGED <<iso_has_callback, iso_before>>
    /\ UNCHANGED outsideIsolation

\* One round of the loop of BaseNester.nest: the next object is popped and
\* the placement attempts spawn it (set_rotation, move_to) and move it;
\* placed or not, the object ends at some pose.
IsoPlacePart ==
    /\ iso_pc = "while"
    /\ iso_parts_to_process # <<>>
    /\ \E p \in Poses :
          iso_heap' = [iso_heap EXCEPT ![Head(iso_parts_to_process)] = p]
    /\ iso_parts_to_process' = Tail(iso_parts_to_process)
    /\ UNCHANGED <<iso_pc, iso_has_callback, iso_before>>
    /\ UNCHANGED outsideIsolation

\* The loop ends and nest() returns.
IsoNestReturn ==
    /\ iso_pc = "while"
    /\ iso_parts_to_process = <<>>
    /\ iso_pc' = "returned"
    /\ UNCHANGED <<iso_has_callback, iso_heap, iso_before, iso_parts_to_process>>
    /\ UNCHANGED outsideIsolation

\* --------------------------------------------- NFP: the CPU and the GPU path
\* Polygons are axis-parallel rectangles with whole corners, a polygon with a
\* hole is a rectangle with a rectangular hole around the same centre.
\* minkowski_utils is not part of the sources at hand: the Minkowski sum and
\* difference of the CPU path are the exact ones of the specification, and a
\* rectangle is its own convex decomposition.

MaxHalfExtent == 3

\* Bits of the significand of numpy.float32.
Float32Mantissa == 24

RECURSIVE Pow2(_)
Pow2(n) == IF n = 0 THEN 1 ELSE 2 * Pow2(n - 1)

\* The first whole number float32 cannot hold.
LargeExtent == Pow2(Float32Mantissa) + 1

Abs(x) == IF x < 0 THEN -x ELSE x

\* Distance of neighbouring float32 values at magnitude a.
RECURSIVE Ulp(_)
Ulp(a) == IF a < Pow2(Float32Mantissa) THEN 1 ELSE 2 * Ulp(a \div 2)

\* Conversion to float32: the nearest value float32 holds, ties to the even
\* significand.
Float32(x) ==
    LET a == Abs(x)
        u == Ulp(a)
        q == a \div u
        r == a % u
        m == IF 2 * r < u THEN q * u
             ELSE IF 2 * r > u THEN (q + 1) * u
             ELSE IF q % 2 = 0 THEN q * u ELSE (q + 1) * u
    IN  IF x < 0 THEN -m ELSE m

Rect(minx, miny, maxx, maxy) ==
    [minx |-> minx, miny |-> miny, maxx |-> maxx, maxy |-> maxy]

NoRect == Rect(0, 0, 0, 0)

\* box(0, 0, 2*hx, 2*hy)
MasterBox(hx, hy) == Rect(0, 0, 2 * hx, 2 * hy)

RectArea(b) == (b.maxx - b.minx) * (b.maxy - b.miny)

\* Twice the centroid of a rectangle.
Centroid2(b) == <<b.minx + b.maxx, b.miny + b.maxy>>

translate(b, dx, dy) == Rect(b.minx + dx, b.miny + dy, b.maxx + dx, b.maxy + dy)

\* translate(poly, -c.x, -c.y) for the centroid c of poly
Centered(b) == translate(b, -(Centroid2(b)[1] \div 2), -(Centroid2(b)[2] \div 2))

\* scale(p, xfact=-1.0, yfact=-1.0, origin=(0,0))
Reflected(b) == Rect(-b.maxx, -b.maxy, -b.minx, -b.miny)

\* p.exterior.coords without the closing point
Coords(b) == {<<x, y>> : x \in {b.minx, b.maxx}, y \in {b.miny, b.maxy}}

\* The relative angles of the comparison, in degrees: run_test passes 0.
TestAngles == {0}

cos(angle) == CASE angle = 0 -> 1

sin(angle) == CASE angle = 0 -> 0

SetMinOf(S) == CHOOSE x \in S : \A y \in S : x <= y

SetMaxOf(S) == CHOOSE x \in S : \A y \in S : x >= y

\* MultiPoint(points).convex_hull of a cloud that holds the corners of its
\* bounding box.
ConvexHull(points) ==
    Rect(SetMinOf({p[1] : p \in points}), SetMinOf({p[2] : p \in points}),
         SetMaxOf({p[1] : p \in points}), SetMaxOf({p[2] : p \in points}))

\* compute_minkowski_sum_convex_kernel on the float32 arrays np_a, np_b:
\* every vertex of A plus every rotated vertex of B.
KernelPairSums(coords_a, coords_b, angle) ==
    {<<Float32(Float32(a[1]) +
               Float32(Float32(Float32(b[1]) * cos(angle)) - Float32(Float32(b[2]) * sin(angle)))),
       Float32(Float32(a[2]) +
               Float32(Float32(Float32(b[1]) * sin(angle)) + Float32(Float32(b[2]) * cos(angle))))>> :
        a \in coords_a, b \in coords_b}

\* A polygon: its exterior and its hole (NoRect: none).
Poly(exterior, hole) == [exterior |-> exterior, hole |-> hole]

NoPoly == Poly(NoRect, NoRect)

PolyArea(p) == RectArea(p.exterior) - RectArea(p.hole)

\* minkowski_utils.minkowski_sum(A, angle_A, False, B, angle_B, True): the sum
\* of A with the point reflection of B, both centred.
MinkowskiSum(a, b) ==
    Rect(a.minx - b.maxx, a.miny - b.maxy, a.maxx - b.minx, a.maxy - b.miny)

\* minkowski_utils.minkowski_difference(hole, 0, B, angle_B): where B's
\* reference point may be with B inside the hole.
MinkowskiDifference(hole, b) ==
    Rect(hole.minx - b.minx, hole.miny - b.miny, hole.maxx - b.maxx, hole.maxy - b.maxy)

\* The hole logic both paths carry: the bounds test, then the difference.
NfpInterior(hole, b) ==
    IF /\ hole # NoRect
       /\ b.maxx - b.minx < hole.maxx - hole.minx
       /\ b.maxy - b.miny < hole.maxy - hole.miny
       /\ RectArea(b) < RectArea(hole)
    THEN MinkowskiDifference(hole, b)
    ELSE NoRect

\* The hole of A in the frame of A's centroid.
CenteredHole(poly_A) ==
    IF poly_A.hole = NoRect THEN NoRect
    ELSE translate(poly_A.hole, -(Centroid2(poly_A.exterior)[1] \div 2),
                                -(Centroid2(poly_A.exterior)[2] \div 2))

\* master_nfp of _calculate_and_cache_nfp
CpuNfp(poly_A, poly_B) ==
    Poly(MinkowskiSum(Centered(poly_A.exterior), Centered(poly_B)),
         NfpInterior(CenteredHole(poly_A), Centered(poly_B)))

\* master_nfp of _calculate_and_cache_nfp_gpu from the kernel's output
GpuNfp(out_vertices, poly_A, poly_B) ==
    Poly(ConvexHull(out_vertices),
         NfpInterior(CenteredHole(poly_A), Centered(poly_B)))

\* The pairs of master polygons compared.
HalfExtents == (1..MaxHalfExtent) \cup {LargeExtent}

EqPolysA ==
    {Poly(MasterBox(hx, hy), NoRect) : hx \in HalfExtents, hy \in 1..MaxHalfExtent}
    \cup {Poly(MasterBox(hx, MaxHalfExtent), Rect(hx - 2, MaxHalfExtent - 2, hx + 2, MaxHalfExtent + 2)) :
            hx \in HalfExtents \ {1, 2}}

EqPolysB == {MasterBox(hx, hy) : hx \in 1..MaxHalfExtent, hy \in 1..2}

EqInit ==
    /\ eq_pc = "start"
    /\ eq_poly_A \in EqPolysA
    /\ eq_poly_B \in EqPolysB
    /\ eq_angle_B \in TestAngles
    /\ eq_nfp_cpu = NoPoly
    /\ eq_out_vertices = {}
    /\ eq_nfp_gpu = NoPoly
    /\ eq_area_diff = 0
    /\ eq_centroid_dist2 = 0

\* No comparison is run.
EqIdle ==
    /\ eq_pc = "idle"
    /\ eq_poly_A = NoPoly
    /\ eq_poly_B = NoRect
    /\ eq_angle_B = 0
    /\ eq_nfp_cpu = NoPoly
    /\ eq_out_vertices = {}
    /\ eq_nfp_gpu = NoPoly
    /\ eq_area_diff = 0
    /\ eq_centroid_dist2 = 0

\* What the comparison leaves alone.
outsideGpuCpu == <<nestAllVars, gravVars, nfpVars, fitVars, oxVars, anVars, cancelVars, isoVars, shakeVars, moveVars, gaVars>>

\* run_test, CPU run: engine_cpu._calculate_and_cache_nfp(shape_A, 0, shape_B, 0, ...)
CpuRun ==
    /\ eq_pc = "start"
    /\ eq_nfp_cpu' = CpuNfp(eq_poly_A, eq_poly_B)
    /\ eq_pc' = "cpu_done"
    /\ UNCHANGED <<eq_poly_A, eq_poly_B, eq_angle_B, eq_out_vertices, eq_nfp_gpu,
                   eq_area_diff, eq_centroid_dist2>>
    /\ UNCHANGED outsideGpuCpu

\* _calculate_and_cache_nfp_gpu up to the kernel: the parts are centred, B is
\* reflected, the kernel sums the vertices.
GpuKernel ==
    /\ eq_pc = "cpu_done"
    /\ eq_out_vertices' = KernelPairSums(Coords(Centered(eq_poly_A.exterior)),
                                         Coords(Reflected(Centered(eq_poly_B))),
                                         eq_angle_B)
    /\ eq_pc' = "kernel_done"
    /\ UNCHANGED <<eq_poly_A, eq_poly_B, eq_angle_B, eq_nfp_cpu, eq_nfp_gpu,
                   eq_area_diff, eq_centroid_dist2>>
    /\ UNCHANGED outsideGpuCpu

\* The rest of _calculate_and_cache_nfp_gpu: hull, union, holes.
GpuHull ==
    /\ eq_pc = "kernel_done"
    /\ eq_nfp_gpu' = GpuNfp(eq_out_vertices, eq_poly_A, eq_poly_B)
    /\ eq_pc' = "gpu_done"
    /\ UNCHANGED <<eq_poly_A, eq_poly_B, eq_angle_B, eq_nfp_cpu, eq_out_vertices,
                   eq_area_diff, eq_centroid_dist2>>
    /\ UNCHANGED outsideGpuCpu

\* run_test, comparison of the two polygons.
Compare ==
    /\ eq_pc = "gpu_done"
    /\ eq_area_diff' = Abs(PolyArea(eq_nfp_cpu) - PolyArea(eq_nfp_gpu))
    /\ eq_centroid_dist2' =
          LET c == Centroid2(eq_nfp_cpu.exterior)
              g == Centroid2(eq_nfp_gpu.exterior)
          IN  (c[1] - g[1]) * (c[1] - g[1]) + (c[2] - g[2]) * (c[2] - g[2])
    /\ eq_pc' = "compared"
    /\ UNCHANGED <<eq_poly_A, eq_poly_B, eq_angle_B, eq_nfp_cpu, eq_out_vertices, eq_nfp_gpu>>
    /\ UNCHANGED outsideGpuCpu

\* ------------------------------------------------ BaseNester._anneal_part
\* The shake search of BaseNester (GravityNester carries the same code). A
\* pose is the bottom-left corner of the part's bounding box and its angle.

MaxAnnealSteps == 3

Pose(x, y, angle) == [x |-> x, y |-> y, angle |-> angle]

NoPoseYet == Pose(0, 0, 0)

\* ShapeBounds.move
Move(pose, dx, dy) == [pose EXCEPT !.x = @ + dx, !.y = @ + dy]

\* ShapeBounds.move_to: the bounding box's bottom-left corner goes to (x, y).
MoveTo(pose, x, y) == [pose EXCEPT !.x = x, !.y = y]

\* ShapeBounds.set_rotation(angle, reposition=True): the corner stays.
SetRotation(pose, angle) == [pose EXCEPT !.angle = angle]

\* A shake helper that leaves the part where the last attempt put it.
NoReset(current, initial_bl_x, initial_bl_y, initial_angle) == current

\* part_to_shake.move_to(initial_bl_x, initial_bl_y);
\* part_to_shake.set_rotation(initial_angle)
ResetPose(current, initial_bl_x, initial_bl_y, initial_angle) ==
    SetRotation(MoveTo(current, initial_bl_x, initial_bl_y), initial_angle)

\* A search that tries the same side at every attempt.
SideDirectionFixed(initial_side_direction, i) == initial_side_direction

\* side_direction = initial_side_direction if i % 2 == 0 else -initial_side_direction
SideDirection(initial_side_direction, i) ==
    IF i % 2 = 0 THEN initial_side_direction ELSE -initial_side_direction

\* angle_step_magnitude = (360.0 / rotation_steps) * (i // 2 + 1)
AngleStepMagnitude(rotation_steps, i) == (360 \div rotation_steps) * (i \div 2 + 1)

\* amplitude = self.step_size * (i // 2 + 1)
Amplitude(i) == step_size * (i \div 2 + 1)

\* (-d[1], d[0]) of a direction d
PerpDir(d) == <<-d[2], d[1]>>

\* The directions a shake may take: perpendicular to gravity, or, with
\* anneal_random_shake_direction, perpendicular to a direction drawn for this
\* attempt (the axis directions stand for the drawn angle).
ShakeDirections(random_shake_direction, current_gravity_direction) ==
    IF random_shake_direction
    THEN {PerpDir(d) : d \in GravityDirections}
    ELSE {PerpDir(current_gravity_direction)}

\* _try_rotation_shake up to the validity check: the pose it tests.
RotationShakePose(current, initial, rotation_steps, side_direction, i) ==
    SetRotation(ResetPose(current, initial.x, initial.y, initial.angle),
                (initial.angle + AngleStepMagnitude(rotation_steps, i) * side_direction) % 360)

\* _try_translation_shake up to the validity check: the pose it tests.
TranslationShakePose(current, initial, perp_dir_for_shake, side_direction, i) ==
    Move(ResetPose(current, initial.x, initial.y, initial.angle),
         perp_dir_for_shake[1] * Amplitude(i) * side_direction,
         perp_dir_for_shake[2] * Amplitude(i) * side_direction)

\* The parts shaken: a unit square and a 2x1 bar with two or four angles.
ShakeParts ==
    { [id |-> 1, w |-> 1, h |-> 1, rotation_steps |-> 1],
      [id |-> 1, w |-> 2, h |-> 1, rotation_steps |-> 2],
      [id |-> 1, w |-> 2, h |-> 1, rotation_steps |-> 4] }

\* The angles a part with rotation_steps steps can have.
PartAngles(rotation_steps) == {k * (360 \div rotation_steps) : k \in 0..(rotation_steps - 1)}

ShakeGravityDirections == { <<0, -1>>, <<-1, 0>> }

Attempt(kind, i, side_direction, pose, is_valid) ==
    [kind |-> kind, i |-> i, side_direction |-> side_direction, pose |-> pose,
     is_valid |-> is_valid]

ShakeInit ==
    /\ sk_pc = "call"
    /\ sk_anneal_steps \in 0..MaxAnnealSteps
    /\ sk_anneal_rotate_enabled \in BOOLEAN
    /\ sk_anneal_translate_enabled \in BOOLEAN
    /\ sk_anneal_random_shake_direction \in BOOLEAN
    /\ sk_rotate_enabled \in BOOLEAN
    /\ sk_translate_enabled \in BOOLEAN
    /\ sk_direction \in ShakeGravityDirections
    /\ sk_sheet \in GravitySheets
    /\ sk_part \in ShakeParts
    /\ sk_pose \in {Pose(x, y, a) : x \in 0..1, y \in 0..1, a \in PartAngles(sk_part.rotation_steps)}
    /\ sk_start = sk_pose
    /\ sk_initial = NoPoseYet
    /\ sk_initial_side_direction = 0
    /\ sk_i = 0
    /\ sk_attempts = <<>>

\* No shake search runs.
ShakeIdle ==
    /\ sk_pc = "idle"
    /\ sk_anneal_steps = 0
    /\ sk_anneal_rotate_enabled = FALSE
    /\ sk_anneal_translate_enabled = FALSE
    /\ sk_anneal_random_shake_direction = FALSE
    /\ sk_rotate_enabled = FALSE
    /\ sk_translate_enabled = FALSE
    /\ sk_direction = <<0, -1>>
    /\ sk_sheet = NewSheet(0, 0, 0)
    /\ sk_part = NoShape
    /\ sk_pose = NoPoseYet
    /\ sk_start = NoPoseYet
    /\ sk_initial = NoPoseYet
    /\ sk_initial_side_direction = 0
    /\ sk_i = 0
    /\ sk_attempts = <<>>

\* What the shake search leaves alone.
outsideShake == <<nestAllVars, gravVars, nfpVars, fitVars, oxVars, anVars, cancelVars, isoVars, eqVars, moveVars, gaVars>>

shakeConfig == <<sk_anneal_steps, sk_anneal_rotate_enabled, sk_anneal_translate_enabled,
                 sk_anneal_random_shake_direction, sk_rotate_enabled, sk_translate_enabled,
                 sk_direction, sk_sheet, sk_part, sk_start>>

\* _anneal_part up to the loop: the immediate return, or the initial state
\* and the side drawn by random.choice([1, -1]).
AnnealPartCall ==
    /\ sk_pc = "call"
    /\ IF \/ sk_anneal_steps = 0
          \/ (~sk_anneal_rotate_enabled /\ ~sk_anneal_translate_enabled)
          \/ (~sk_rotate_enabled /\ ~sk_translate_enabled)
       THEN /\ sk_pc' = "returned"
            /\ UNCHANGED <<sk_initial, sk_initial_side_direction>>
       ELSE /\ sk_pc' = "for"
            /\ sk_initial' = sk_pose
            /\ sk_initial_side_direction' \in {1, -1}
    /\ sk_i' = 0
    /\ UNCHANGED <<shakeConfig, sk_pose, sk_attempts>>
    /\ UNCHANGED outsideShake

\* One iteration of for i in range(self.anneal_steps): one helper is called
\* (or none), and a valid pose ends the search.
ShakeAttempt ==
    /\ sk_pc = "for"
    /\ sk_i < sk_anneal_steps
    /\ LET side_direction == SideDirection(sk_initial_side_direction, sk_i)
       IN  IF /\ sk_rotate_enabled /\ ~sk_translate_enabled
              /\ sk_anneal_rotate_enabled /\ sk_part.rotation_steps > 1
           THEN LET p == RotationShakePose(sk_pose, sk_initial, sk_part.rotation_steps,
                                           side_direction, sk_i)
                    is_valid == IsPlacementValid(sk_sheet, sk_part, p.x, p.y, p.angle)
                IN  /\ sk_pose' = p
                    /\ sk_attempts' = Append(sk_attempts,
                                             Attempt("rotation", sk_i, side_direction, p, is_valid))
                    /\ IF is_valid
                       THEN sk_pc' = "returned" /\ sk_i' = sk_i
                       ELSE sk_pc' = "for" /\ sk_i' = sk_i + 1
           ELSE IF /\ ~sk_rotate_enabled /\ sk_translate_enabled
                   /\ sk_anneal_translate_enabled
           THEN \E perp \in ShakeDirections(sk_anneal_random_shake_direction, sk_direction) :
                LET p == TranslationShakePose(sk_pose, sk_initial, perp, side_direction, sk_i)
                    is_valid == IsPlacementValid(sk_sheet, sk_part, p.x, p.y, p.angle)
                IN  /\ sk_pose' = p
                    /\ sk_attempts' = Append(sk_attempts,
                                             Attempt("translation", sk_i, side_direction, p, is_valid))
                    /\ IF is_valid
                       THEN sk_pc' = "returned" /\ sk_i' = sk_i
                       ELSE sk_pc' = "for" /\ sk_i' = sk_i + 1
           ELSE /\ sk_pc' = "for"
                /\ sk_i' = sk_i + 1
                /\ UNCHANGED <<sk_pose, sk_attempts>>
    /\ UNCHANGED <<shakeConfig, sk_initial, sk_initial_side_direction>>
    /\ UNCHANGED outsideShake

\* The loop has ended without a valid pose: the part is put back.
AnnealPartRevert ==
    /\ sk_pc = "for"
    /\ sk_i >= sk_anneal_steps
    /\ sk_pose' = ResetPose(sk_pose, sk_initial.x, sk_initial.y, sk_initial.angle)
    /\ sk_pc' = "returned"
    /\ UNCHANGED <<shakeConfig, sk_initial, sk_initial_side_direction, sk_i, sk_attempts>>
    /\ UNCHANGED outsideShake

\* ------------------------------------- GravityNester._move_until_collision
\* One call: gravity, the shake of phase 2 (rotation-only, then
\* translation-only), gravity again. _apply_gravity_to_part and _anneal_part
\* are taken as whole calls here; their steps are the actions of SpecGravity
\* and SpecShake.

\* Twice the centroid of the part's polygon at a pose.
PartCentroid2(part, pose) ==
    <<2 * pose.x + BoxW(part, pose.angle), 2 * pose.y + BoxH(part, pose.angle)>>

\* A validity check that passes whatever the pose.
PoseAlwaysValid(sheet, part, pose) == TRUE

\* sheet.is_placement_valid(part, recalculate_union=False, part_to_ignore=part)
PoseValid(sheet, part, pose) == IsPlacementValid(sheet, part, pose.x, pose.y, pose.angle)

\* The loop of _apply_gravity_to_part with n iterations left, for a nester
\* whose update_callback attribute exists: move one step, undo it and stop
\* when the pose is invalid.
RECURSIVE Slide(_, _, _, _, _)
Slide(sheet, part, pose, direction, n) ==
    IF n = 0 THEN pose
    ELSE LET next == Move(pose, direction[1] * step_size, direction[2] * step_size)
         IN  IF PoseValid(sheet, part, next)
             THEN Slide(sheet, part, next, direction, n - 1)
             ELSE pose

\* _apply_gravity_to_part: how it ends and where it leaves the part. The
\* first iteration reads self.update_callback after the part has moved.
ApplyGravity(sheet, part, pose, direction, max_nesting_steps_, update_callback) ==
    IF max_nesting_steps_ = 0
    THEN [kind |-> "return", pose |-> pose]
    ELSE IF update_callback = "unset"
    THEN [kind |-> "raise",
          pose |-> Move(pose, direction[1] * step_size, direction[2] * step_size)]
    ELSE [kind |-> "return", pose |-> Slide(sheet, part, pose, direction, max_nesting_steps_)]

\* The loop of _anneal_part from iteration i on, for the side s drawn at the
\* start: the poses the part can be left at.
RECURSIVE ShakeFrom(_, _, _, _, _, _, _, _, _)
ShakeFrom(i, current, initial, s, kind, cfg, sheet, part, direction) ==
    IF i >= cfg.anneal_steps
    THEN {ResetPose(current, initial.x, initial.y, initial.angle)}
    ELSE IF kind = "rotation" /\ cfg.anneal_rotate_enabled /\ part.rotation_steps > 1
    THEN LET p == RotationShakePose(current, initial, part.rotation_steps, SideDirection(s, i), i)
         IN  IF PoseValid(sheet, part, p)
             THEN {p}
             ELSE ShakeFrom(i + 1, p, initial, s, kind, cfg, sheet, part, direction)
    ELSE IF kind = "translation" /\ cfg.anneal_translate_enabled
    THEN UNION { LET p == TranslationShakePose(current, initial, perp, SideDirection(s, i), i)
                 IN  IF PoseValid(sheet, part, p)
                     THEN {p}
                     ELSE ShakeFrom(i + 1, p, initial, s, kind, cfg, sheet, part, direction)
                 : perp \in ShakeDirections(cfg.anneal_random_shake_direction, direction) }
    ELSE ShakeFrom(i + 1, current, initial, s, kind, cfg, sheet, part, direction)

\* _anneal_part(part, sheet, direction, rotate_enabled, translate_enabled)
\* with exactly one of the two kinds asked for: the poses it can leave the
\* part at.
AnnealPart(kind, cfg, sheet, part, pose, direction) ==
    IF cfg.anneal_steps = 0 \/ (~cfg.anneal_rotate_enabled /\ ~cfg.anneal_translate_enabled)
    THEN {pose}
    ELSE UNION {ShakeFrom(0, pose, pose, s, kind, cfg, sheet, part, direction) : s \in {1, -1}}

\* The settings a GravityNester can be built with.
MoveConfigs ==
    [anneal_steps : 0..MaxAnnealSteps,
     anneal_rotate_enabled : BOOLEAN,
     anneal_translate_enabled : BOOLEAN,
     anneal_random_shake_direction : BOOLEAN,
     max_nesting_steps : 0..MaxSteps,
     update_callback : {UpdateCallbackAfterInit(TRUE), UpdateCallbackAfterInit(FALSE)}]

NoConfig ==
    [anneal_steps |-> 0, anneal_rotate_enabled |-> FALSE, anneal_translate_enabled |-> FALSE,
     anneal_random_shake_direction |-> FALSE, max_nesting_steps |-> 0,
     update_callback |-> "unset"]

\* The part has been spawned at a valid pose.
MoveInit ==
    /\ mv_pc = "call"
    /\ mv_cfg \in MoveConfigs
    /\ mv_sheet \in GravitySheets
    /\ mv_part \in ShakeParts
    /\ mv_direction \in ShakeGravityDirections
    /\ mv_pose \in {Pose(x, y, a) : x \in 0..2, y \in 0..2, a \in PartAngles(mv_part.rotation_steps)}
    /\ IsPlacementValid(mv_sheet, mv_part, mv_pose.x, mv_pose.y, mv_pose.angle)
    /\ mv_pre_shake = NoPoseYet
    /\ mv_post_rot = NoPoseYet
    /\ mv_rot_ran = FALSE
    /\ mv_trans_ran = FALSE
    /\ mv_gravity_phases = 0
    /\ mv_raised = ""

\* _move_until_collision is not called.
MoveIdle ==
    /\ mv_pc = "idle"
    /\ mv_cfg = NoConfig
    /\ mv_sheet = NewSheet(0, 0, 0)
    /\ mv_part = NoShape
    /\ mv_direction = <<0, -1>>
    /\ mv_pose = NoPoseYet
    /\ mv_pre_shake = NoPoseYet
    /\ mv_post_rot = NoPoseYet
    /\ mv_rot_ran = FALSE
    /\ mv_trans_ran = FALSE
    /\ mv_gravity_phases = 0
    /\ mv_raised = ""

\* What _move_until_collision leaves alone.
outsideMove == <<nestAllVars, gravVars, nfpVars, fitVars, oxVars, anVars, cancelVars, isoVars, eqVars, shakeVars, gaVars>>

\* Phase 1: the first gravity movement; then pre_shake_pos is read.
MoveGravityPhase1 ==
    /\ mv_pc = "call"
    /\ LET r == ApplyGravity(mv_sheet, mv_part, mv_pose, mv_direction,
                             mv_cfg.max_nesting_steps, mv_cfg.update_callback)
       IN  /\ mv_pose' = r.pose
           /\ IF r.kind = "raise"
              THEN mv_pc' = "raised" /\ mv_raised' = "AttributeError" /\ mv_pre_shake' = mv_pre_shake
              ELSE mv_pc' = "step2a" /\ mv_raised' = mv_raised /\ mv_pre_shake' = r.pose
    /\ mv_gravity_phases' = mv_gravity_phases + 1
    /\ UNCHANGED <<mv_cfg, mv_sheet, mv_part, mv_direction, mv_post_rot, mv_rot_ran, mv_trans_ran>>
    /\ UNCHANGED outsideMove

\* Step 2a: the rotation-only search, when anneal_rotate_enabled.
MoveRotationSearch ==
    /\ mv_pc = "step2a"
    /\ IF mv_cfg.anneal_rotate_enabled
       THEN /\ mv_pose' \in AnnealPart("rotation", mv_cfg, mv_sheet, mv_part, mv_pose, mv_direction)
            /\ mv_rot_ran' = TRUE
       ELSE UNCHANGED <<mv_pose, mv_rot_ran>>
    /\ mv_post_rot' = mv_pose'
    /\ mv_pc' = "step2b"
    /\ UNCHANGED <<mv_cfg, mv_sheet, mv_part, mv_direction, mv_pre_shake, mv_trans_ran,
                   mv_gravity_phases, mv_raised>>
    /\ UNCHANGED outsideMove

\* Step 2b: the translation-only search, when rot_pos is pre_shake_pos and
\* anneal_translate_enabled.
MoveTranslationSearch ==
    /\ mv_pc = "step2b"
    /\ IF /\ PartCentroid2(mv_part, mv_pose) = PartCentroid2(mv_part, mv_pre_shake)
          /\ mv_cfg.anneal_translate_enabled
       THEN /\ mv_pose' \in AnnealPart("translation", mv_cfg, mv_sheet, mv_part, mv_pose, mv_direction)
            /\ mv_trans_ran' = TRUE
       ELSE UNCHANGED <<mv_pose, mv_trans_ran>>
    /\ mv_pc' = "phase3"
    /\ UNCHANGED <<mv_cfg, mv_sheet, mv_part, mv_direction, mv_pre_shake, mv_post_rot, mv_rot_ran,
                   mv_gravity_phases, mv_raised>>
    /\ UNCHANGED outsideMove

\* Phase 3: the last gravity movement, and the return.
MoveGravityPhase3 ==
    /\ mv_pc = "phase3"
    /\ LET r == ApplyGravity(mv_sheet, mv_part, mv_pose, mv_direction,
                             mv_cfg.max_nesting_steps, mv_cfg.update_callback)
       IN  /\ mv_pose' = r.pose
           /\ IF r.kind = "raise"
              THEN mv_pc' = "raised" /\ mv_raised' = "AttributeError"
              ELSE mv_pc' = "returned" /\ mv_raised' = mv_raised
    /\ mv_gravity_phases' = mv_gravity_phases + 1
    /\ UNCHANGED <<mv_cfg, mv_sheet, mv_part, mv_direction, mv_pre_shake, mv_post_rot, mv_rot_ran,
                   mv_trans_ran>>
    /\ UNCHANGED outsideMove

\* ------------------------------------------------- genetic_utils: chromosomes
\* Two chromosomes are made from the same parts with create_random_chromosome,
\* crossed with ordered_crossover, and the child is mutated. A chromosome is a
\* list of references to part objects; ga_heap gives each object's fields.

\* A part: its id, its own rotation_steps and its angle.
GaPart(id, rotation_steps, angle) ==
    [id |-> id, rotation_steps |-> rotation_steps, angle |-> angle]

\* A reference no object has been made for.
NoPart == GaPart(0, 1, 0)

\* The rotation_steps argument of the operators (the layout's global value).
GaRotationSteps == {1, 2, 4}

\* The parts handed to create_random_chromosome, unrotated: a part's own
\* rotation_steps may differ from the global value (shape_preparer.py:197,
\* 216).
GaPartLists ==
    { <<GaPart(1, 1, 0), GaPart(2, 4, 0)>>,
      <<GaPart(1, 2, 0), GaPart(2, 2, 0)>>,
      <<GaPart(1, 4, 0), GaPart(2, 4, 0)>> }

\* References of the objects of the two chromosomes.
Parent1Refs == <<1, 2>>

Parent2Refs == <<3, 4>>

\* random.randrange(rotation_steps) * (360.0 / rotation_steps)
StepAngles(rotation_steps) ==
    { k * (360 \div rotation_steps) : k \in 0..(rotation_steps - 1) }

\* The parts a chromosome holds, in its order.
PartsOf(chromosome, heap) == [k \in 1..Len(chromosome) |-> heap[chromosome[k]]]

\* create_random_chromosome, lines 9-15: deep copies of the parts (the copy of
\* parts_[i] is the object refs[i]), shuffled, each set to a random angle when
\* rotation_steps > 1. The results, as chromosome and heap.
CreateRandomChromosome(parts_, rotation_steps, refs, heap) ==
    { [chromosome |-> [k \in 1..Len(parts_) |-> refs[perm[k]]],
       heap |-> [r \in DOMAIN heap |->
                   IF \E i \in 1..Len(parts_) : refs[i] = r
                   THEN LET i == CHOOSE i \in 1..Len(parts_) : refs[i] = r
                        IN  [parts_[i] EXCEPT !.angle =
                                IF rotation_steps > 1 THEN angles[i] ELSE @]
                   ELSE heap[r]]] :
        perm \in Orderings(Len(parts_)),
        angles \in [1..Len(parts_) -> StepAngles(rotation_steps)] }

\* ordered_crossover, lines 54-60: the positions left empty take parent2's
\* parts that are not in child_ids_set, in parent2's order. The same object
\* is put into the child, not a copy.
RECURSIVE OxFill(_, _, _, _, _, _)
OxFill(child_p, i, p2_index, parent2, p2_ids, child_ids_set) ==
    IF i >= Len(child_p) THEN child_p
    ELSE IF child_p[i + 1] # 0
         THEN OxFill(child_p, i + 1, p2_index, parent2, p2_ids, child_ids_set)
         ELSE LET j == NextP2Index(p2_ids, p2_index, child_ids_set)
              IN  IF j >= Len(parent2) THEN child_p
                  ELSE OxFill([child_p EXCEPT ![i + 1] = parent2[j + 1]], i + 1, j + 1,
                              parent2, p2_ids, child_ids_set)

\* ordered_crossover with the slice [start, end): child_p[start:end] =
\* parent1[start:end] copies the references.
OrderedCrossover(parent1, parent2, start, end, heap) ==
    LET size == Len(parent1)
        sliced == [i \in 1..size |-> IF start < i /\ i <= end THEN parent1[i] ELSE 0]
        child_ids_set == { heap[parent1[i]].id : i \in (start + 1)..end }
        p2_ids == [k \in 1..Len(parent2) |-> heap[parent2[k]].id]
    IN  OxFill(sliced, 0, 0, parent2, p2_ids, child_ids_set)

\* chromosome[i], chromosome[j] = chromosome[j], chromosome[i] (1-based here)
SwapAt(chromosome, i, j) ==
    [k \in 1..Len(chromosome) |->
        IF k = i THEN chromosome[j] ELSE IF k = j THEN chromosome[i] ELSE chromosome[k]]

\* chromosome[start:end] = reversed(chromosome[start:end])
ReverseSegment(chromosome, start, end) ==
    [k \in 1..Len(chromosome) |->
        IF start < k /\ k <= end THEN chromosome[start + end + 1 - k] ELSE chromosome[k]]

\* mutate_chromosome, lines 76-89: the orders the three order mutations can
\* leave, each of them applied or not.
MutatedOrders(chromosome) ==
    LET n == Len(chromosome)
        swapped == {chromosome} \cup
                   { SwapAt(chromosome, i, j) : i, j \in 1..n }
        reversed == swapped \cup
                    UNION { { ReverseSegment(c, start, end) :
                                start \in 0..(n - 2), end \in 1..n } : c \in swapped }
    IN  reversed \cup
        UNION { { SwapAt(c, i + 1, i + 2) : i \in 0..(n - 2) } : c \in reversed }

\* Line 101: int(part._angle / (360.0 / rotation_steps)) if the part has an
\* attribute _angle, else 0; which of the two holds of a Shape is not in the
\* sources, so both are outcomes.
CurrentSteps(part, rotation_steps) ==
    { part.angle \div (360 \div rotation_steps), 0 }

\* Lines 92-95: one part of the chromosome is set to a random angle, or none.
RotationMutated(chromosome, heap, rotation_steps) ==
    {heap} \cup
    IF rotation_steps > 1
    THEN { [heap EXCEPT ![chromosome[k]].angle = a] :
             k \in 1..Len(chromosome), a \in StepAngles(rotation_steps) }
    ELSE {}

\* Lines 101-105: the angles the rotation spreading can give a part.
SpreadAngles(part, rotation_steps) ==
    { ((current_step + delta) % rotation_steps) * (360 \div rotation_steps) :
        current_step \in CurrentSteps(part, rotation_steps), delta \in {-1, 1} }

\* Lines 98-106: some of the parts are moved to a rotation step next to the
\* current one, or none.
RotationSpread(chromosome, heap, rotation_steps) ==
    {heap} \cup
    IF rotation_steps > 1
    THEN LET held == { chromosome[k] : k \in 1..Len(chromosome) }
             angles == [DOMAIN heap ->
                          StepAngles(rotation_steps) \cup { heap[r].angle : r \in DOMAIN heap }]
         IN  { [r \in DOMAIN heap |-> [heap[r] EXCEPT !.angle = new_angle[r]]] :
                 new_angle \in { f \in angles :
                     \A r \in DOMAIN heap :
                        \/ f[r] = heap[r].angle
                        \/ r \in held /\ f[r] \in SpreadAngles(heap[r], rotation_steps) } }
    ELSE {}

\* mutate_chromosome: nothing for fewer than two parts (lines 72-73); else the
\* order mutations on the list and the rotation mutations on its parts.
MutateChromosome(chromosome, heap, rotation_steps) ==
    IF Len(chromosome) < 2
    THEN { [chromosome |-> chromosome, heap |-> heap] }
    ELSE { [chromosome |-> c, heap |-> h2] :
             c \in MutatedOrders(chromosome),
             h2 \in UNION { RotationSpread(chromosome, h1, rotation_steps) :
                              h1 \in RotationMutated(chromosome, heap, rotation_steps) } }

GaInit ==
    /\ ga_pc = "new"
    /\ ga_parts \in GaPartLists
    /\ ga_rotation_steps \in GaRotationSteps
    /\ ga_heap = [r \in 1..4 |-> NoPart]
    /\ ga_parent1 = <<>>
    /\ ga_parent2 = <<>>
    /\ ga_child = <<>>
    /\ ga_before = <<>>

\* No chromosome exists.
GaIdle ==
    /\ ga_pc = "idle"
    /\ ga_parts = <<>>
    /\ ga_rotation_steps = 1
    /\ ga_heap = [r \in 1..4 |-> NoPart]
    /\ ga_parent1 = <<>>
    /\ ga_parent2 = <<>>
    /\ ga_child = <<>>
    /\ ga_before = <<>>

\* What the actions of SpecChromosome leave alone.
outsideChromosome == <<nestAllVars, gravVars, nfpVars, fitVars, oxVars, anVars, cancelVars, isoVars, eqVars, shakeVars, moveVars>>

\* parent1 = create_random_chromosome(parts, rotation_steps)
GaCreateParent1 ==
    /\ ga_pc = "new"
    /\ \E r \in CreateRandomChromosome(ga_parts, ga_rotation_steps, Parent1Refs, ga_heap) :
         /\ ga_parent1' = r.chromosome
         /\ ga_heap' = r.heap
    /\ ga_pc' = "one"
    /\ UNCHANGED <<ga_parts, ga_rotation_steps, ga_parent2, ga_child, ga_before>>
    /\ UNCHANGED outsideChromosome

\* parent2 = create_random_chromosome(parts, rotation_steps)
GaCreateParent2 ==
    /\ ga_pc = "one"
    /\ \E r \in CreateRandomChromosome(ga_parts, ga_rotation_steps, Parent2Refs, ga_heap) :
         /\ ga_parent2' = r.chromosome
         /\ ga_heap' = r.heap
    /\ ga_pc' = "two"
    /\ UNCHANGED <<ga_parts, ga_rotation_steps, ga_parent1, ga_child, ga_before>>
    /\ UNCHANGED outsideChromosome

\* child = ordered_crossover(parent1, parent2)
GaCrossover ==
    /\ ga_pc = "two"
    /\ \E sl \in Slices(Len(ga_parent1)) :
         ga_child' = OrderedCrossover(ga_parent1, ga_parent2, sl[1], sl[2], ga_heap)
    /\ ga_before' = <<PartsOf(ga_parent1, ga_heap), PartsOf(ga_parent2, ga_heap)>>
    /\ ga_pc' = "crossed"
    /\ UNCHANGED <<ga_parts, ga_rotation_steps, ga_heap, ga_parent1, ga_parent2>>
    /\ UNCHANGED outsideChromosome

\* mutate_chromosome(child, mutation_rate, rotation_steps), for any rate
GaMutate ==
    /\ ga_pc = "crossed"
    /\ \E r \in MutateChromosome(ga_child, ga_heap, ga_rotation_steps) :
         /\ ga_child' = r.chromosome
         /\ ga_heap' = r.heap
    /\ ga_pc' = "mutated"
    /\ UNCHANGED <<ga_parts, ga_rotation_steps, ga_parent1, ga_parent2, ga_before>>
    /\ UNCHANGED outsideChromosome

\* ----------------------------------------------------------- specifications

Init == NestInit /\ GravIdle /\ NfpIdle /\ FitIdle /\ OxIdle /\ AnIdle /\ CancelIdle /\ IsoIdle /\ EqIdle /\ ShakeIdle /\ MoveIdle /\ GaIdle

Next ==
    \/ ModuleImport
    \/ NestCall
    \/ PopPart
    \/ TryExistingSheet
    \/ TryNewSheet
    \/ NestReturn

\* No call of the top-level nest() is under way.
NestIdle ==
    /\ shapely_installed = TRUE
    /\ parts = <<>>
    /\ width = 0 /\ height = 0 /\ rotation_steps_arg = 1
    /\ algorithm = "Grid Fill"
    /\ pc = "idle"
    /\ SHAPELY_AVAILABLE = FALSE
    /\ raised = ""
    /\ nester = NoNester
    /\ parts_to_place = <<>>
    /\ sheets = <<>>
    /\ unplaced_shapes = <<>>
    /\ original_shape = NoShape
    /\ sheet_idx = 0
    /\ sheet_created = FALSE
    /\ attempted = FALSE
    /\ processed = <<>>
    /\ rejected_by = {}
    /\ last_event = NoEvent

Spec == Init /\ [][Next]_vars

GravityNext ==
    \/ GravityConstruct
    \/ ApplyGravityCall
    \/ ApplyGravityStep
    \/ ApplyGravityReturn

GravityInit == NestIdle /\ GravInit /\ NfpIdle /\ FitIdle /\ OxIdle /\ AnIdle /\ CancelIdle /\ IsoIdle /\ EqIdle /\ ShakeIdle /\ MoveIdle /\ GaIdle

SpecGravity == GravityInit /\ [][GravityNext]_vars

NfpNext ==
    \/ SheetAddPart
    \/ \E t \in NfpThreads : QueryBegin(t)
    \/ \E t \in NfpThreads : Snapshot(t)
    \/ \E t \in NfpThreads : LoopLookup(t)
    \/ \E t \in NfpThreads : CalcLookup(t)
    \/ \E t \in NfpThreads : CalcCompute(t)
    \/ \E t \in NfpThreads : CalcStore(t)
    \/ \E t \in NfpThreads : GpuLookup(t)
    \/ \E t \in NfpThreads : GpuCompute(t)
    \/ \E t \in NfpThreads : GpuStore(t)
    \/ \E t \in NfpThreads : Check(t)
    \/ \E t \in NfpThreads : Update(t)

NfpSpecInit == NestIdle /\ GravIdle /\ NfpInit /\ FitIdle /\ OxIdle /\ AnIdle /\ CancelIdle /\ IsoIdle /\ EqIdle /\ ShakeIdle /\ MoveIdle /\ GaIdle

SpecNfp == NfpSpecInit /\ [][NfpNext]_vars

\* One thread: the nester adds parts between its queries, never inside one.
NfpSingleNext ==
    \/ th_pc["t1"] = "idle" /\ SheetAddPart
    \/ QueryBegin("t1")
    \/ Snapshot("t1")
    \/ LoopLookup("t1")
    \/ CalcLookup("t1")
    \/ CalcCompute("t1")
    \/ CalcStore("t1")
    \/ GpuLookup("t1")
    \/ GpuCompute("t1")
    \/ GpuStore("t1")
    \/ Check("t1")
    \/ Update("t1")

SpecNfpSingle == NfpSpecInit /\ [][NfpSingleNext]_vars

FitnessNext ==
    \E i \in 1..2 : CalculateEfficiency(i)

FitnessInit == NestIdle /\ GravIdle /\ NfpIdle /\ FitInit /\ OxIdle /\ AnIdle /\ CancelIdle /\ IsoIdle /\ EqIdle /\ ShakeIdle /\ MoveIdle /\ GaIdle

SpecFitness == FitnessInit /\ [][FitnessNext]_vars

CrossoverNext ==
    \/ OxChooseSlice
    \/ OxCopySlice
    \/ OxFillStep
    \/ OxReturn

CrossoverInit == NestIdle /\ GravIdle /\ NfpIdle /\ FitIdle /\ OxInit /\ AnIdle /\ CancelIdle /\ IsoIdle /\ EqIdle /\ ShakeIdle /\ MoveIdle /\ GaIdle

SpecCrossover == CrossoverInit /\ [][CrossoverNext]_vars

AnnealNext ==
    \/ AnnealStart
    \/ AnnealWhile
    \/ AnnealStep
    \/ AnnealCool

AnnealInit == NestIdle /\ GravIdle /\ NfpIdle /\ FitIdle /\ OxIdle /\ AnInit /\ CancelIdle /\ IsoIdle /\ EqIdle /\ ShakeIdle /\ MoveIdle /\ GaIdle

SpecAnneal == AnnealInit /\ [][AnnealNext]_vars

CancelNext ==
    \/ ModuleImport
    \/ NestCall
    \/ PopPart
    \/ TryExistingSheet
    \/ TryNewSheet
    \/ NestReturn
    \/ RequestCancel

CancelSpecInit == NestInit /\ GravIdle /\ NfpIdle /\ FitIdle /\ OxIdle /\ AnIdle /\ CancelInit /\ IsoIdle /\ EqIdle /\ ShakeIdle /\ MoveIdle /\ GaIdle

SpecCancel == CancelSpecInit /\ [][CancelNext]_vars

IsolationNext ==
    \/ IsoNestCall
    \/ IsoPlacePart
    \/ IsoNestReturn

IsolationInit == NestIdle /\ GravIdle /\ NfpIdle /\ FitIdle /\ OxIdle /\ AnIdle /\ CancelIdle /\ IsoInit /\ EqIdle /\ ShakeIdle /\ MoveIdle /\ GaIdle

SpecIsolation == IsolationInit /\ [][IsolationNext]_vars

GpuCpuNext ==
    \/ CpuRun
    \/ GpuKernel
    \/ GpuHull
    \/ Compare

GpuCpuInit == NestIdle /\ GravIdle /\ NfpIdle /\ FitIdle /\ OxIdle /\ AnIdle /\ CancelIdle /\ IsoIdle /\ EqInit /\ ShakeIdle /\ MoveIdle /\ GaIdle

SpecGpuCpu == GpuCpuInit /\ [][GpuCpuNext]_vars

ShakeNext ==
    \/ AnnealPartCall
    \/ ShakeAttempt
    \/ AnnealPartRevert

ShakeSpecInit == NestIdle /\ GravIdle /\ NfpIdle /\ FitIdle /\ OxIdle /\ AnIdle /\ CancelIdle /\ IsoIdle /\ EqIdle /\ ShakeInit /\ MoveIdle /\ GaIdle

SpecShake == ShakeSpecInit /\ [][ShakeNext]_vars

MoveNext ==
    \/ MoveGravityPhase1
    \/ MoveRotationSearch
    \/ MoveTranslationSearch
    \/ MoveGravityPhase3

MoveSpecInit == NestIdle /\ GravIdle /\ NfpIdle /\ FitIdle /\ OxIdle /\ AnIdle /\ CancelIdle /\ IsoIdle /\ EqIdle /\ ShakeIdle /\ MoveInit /\ GaIdle

SpecMove == MoveSpecInit /\ [][MoveNext]_vars

ChromosomeNext ==
    \/ GaCreateParent1
    \/ GaCreateParent2
    \/ GaCrossover
    \/ GaMutate

ChromosomeInit == NestIdle /\ GravIdle /\ NfpIdle /\ FitIdle /\ OxIdle /\ AnIdle /\ CancelIdle /\ IsoIdle /\ EqIdle /\ ShakeIdle /\ MoveIdle /\ GaInit

SpecChromosome == ChromosomeInit /\ [][ChromosomeNext]_vars

\* =================================================================== claims

\* Positions <<sheet, slot>> at which shape p is a placed part.
PlacedAt(p) ==
    { <<i, j>> \in (1..Len(sheets)) \X (1..MaxParts) :
        j <= Len(sheets[i].parts) /\ sheets[i].parts[j].shape = p }

UnplacedAt(p) == { k \in 1..Len(unplaced_shapes) : unplaced_shapes[k] = p }

RECURSIVE PlacedCount(_)
PlacedCount(n) == IF n = 0 THEN 0 ELSE Len(sheets[n].parts) + PlacedCount(n - 1)

\* C1 (conservation): when nest() has returned, every input part is either a
\* placed part at exactly one slot of exactly one returned sheet or an entry of
\* the unplaced list, exactly once in all, and the number of placed parts plus
\* the number of unplaced parts is the number of input parts.
C1_Conservation ==
    pc = "done" =>
        /\ \A i \in 1..Len(parts) :
             Cardinality(PlacedAt(parts[i])) + Cardinality(UnplacedAt(parts[i])) = 1
        /\ PlacedCount(Len(sheets)) + Len(unplaced_shapes) = Len(parts)

C1_Witness ==
    /\ pc = "done"
    /\ Len(parts) = 3
    /\ Len(sheets) = 2
    /\ Len(unplaced_shapes) = 1

\* C2 (no overlap): in every state, each part accepted onto a sheet lies
\* inside [0,width]x[0,height] of that sheet and no two parts accepted onto the
\* same sheet cover a common cell.
C2_NoOverlap ==
    \A i \in 1..Len(sheets) :
        LET sh == sheets[i]
            box(j) == Footprint(sh.parts[j].shape, sh.parts[j].x, sh.parts[j].y, sh.parts[j].angle)
        IN  /\ \A j \in 1..Len(sh.parts) :
                 \A c \in box(j) : /\ 0 <= c[1] /\ c[1] + 1 <= sh.width
                                   /\ 0 <= c[2] /\ c[2] + 1 <= sh.height
            /\ \A j, k \in 1..Len(sh.parts) : j < k => box(j) \cap box(k) = {}

\* The strategy returned a pose on a sheet holding parts, the re-check failed
\* and the pose was discarded.
C2_Witness ==
    /\ last_event.kind = "discard"
    /\ Len(sheets) >= 1
    /\ Len(sheets[1].parts) >= 2

\* No allowed orientation of p fits a sheet of the nester's size.
Unfit(p, n) ==
    \A a \in AllowedAngles(p) : BoxW(p, a) > n.bin_width \/ BoxH(p, a) > n.bin_height

\* C3 (unplaceable part): when a fresh sheet rejects a part, the part is the
\* new last entry of the unplaced list, no exception ends the call, the
\* tentative sheet is not in the sheet list, and the loop is back at its head;
\* a part that fits no fresh sheet is never placed and never raises, and is in
\* the unplaced list once its iteration is over; every sheet of the list holds
\* at least one part.
C3_Unplaceable ==
    /\ last_event.kind = "unplaced" =>
         /\ pc = "while" /\ raised = ""
         /\ unplaced_shapes # <<>>
         /\ unplaced_shapes[Len(unplaced_shapes)] = original_shape
         /\ Len(sheets) = last_event.sheet
    /\ \A i \in 1..Len(processed) :
         Unfit(processed[i], nester) =>
           /\ PlacedAt(processed[i]) = {}
           /\ (last_event.kind = "raise" => original_shape # processed[i])
           /\ (i < Len(processed) \/ pc \in {"while", "done"}) =>
                UnplacedAt(processed[i]) # {}
    /\ \A i \in 1..Len(sheets) : sheets[i].parts # <<>>

\* The gravity placer failed every spawn of a 3x3 part on a fresh 2x2 sheet,
\* and parts remain to be processed.
C3_Witness ==
    /\ last_event.kind = "unplaced"
    /\ nester.class = "Gravity"
    /\ original_shape.w = 3 /\ original_shape.h = 3
    /\ nester.bin_width = 2 /\ nester.bin_height = 2
    /\ parts_to_place # <<>>

\* C4 (processing order): nest() pops the parts in descending area, parts of
\* equal area in the order of the input list (ids are input positions), and by
\* the time it returns it has popped every input part.
C4_SortedStable ==
    /\ \A i, j \in 1..Len(processed) :
         i < j => \/ Area(processed[i]) > Area(processed[j])
                  \/ /\ Area(processed[i]) = Area(processed[j])
                     /\ processed[i].id < processed[j].id
    /\ pc = "done" => Len(processed) = Len(parts)

\* An input whose order the sort changes and that holds two parts of equal area.
C4_Witness ==
    /\ pc = "done"
    /\ Len(parts) = 3
    /\ Area(parts[1]) < Area(parts[2])
    /\ Area(parts[2]) = Area(parts[3])

\* C5 (first fit): sheets are listed in creation order; while a part is being
\* tried the sheets that rejected it are exactly those before the loop
\* position; a part accepted onto sheet k was rejected by sheets 0..k-1 and the
\* loop then stops; a new sheet is tried only after every listed sheet
\* rejected the part.
C5_FirstFit ==
    /\ \A i \in 1..Len(sheets) : sheets[i].id = i - 1
    /\ pc = "for" => rejected_by = 0..(sheet_idx - 2)
    /\ last_event.kind = "accept" =>
         /\ rejected_by = 0..(last_event.sheet - 1)
         /\ pc = "while"
    /\ last_event.kind \in {"open", "unplaced"} =>
         /\ last_event.sheet = Cardinality(rejected_by)
         /\ rejected_by = 0..(last_event.sheet - 1)

\* A part accepted onto the second sheet after the first one rejected it.
C5_Witness ==
    /\ last_event.kind = "accept"
    /\ last_event.sheet = 1
    /\ rejected_by = {0}

IsPrefix(s, t) == Len(s) <= Len(t) /\ \A i \in 1..Len(s) : s[i] = t[i]

\* C6 (no backtracking): no step removes a sheet, and on every sheet the
\* accepted parts with their poses stay, in order, a prefix of the sheet's
\* part list after the step.
C6_NoBacktracking ==
    [][ /\ Len(sheets) <= Len(sheets')
        /\ \A i \in 1..Len(sheets) :
             /\ sheets'[i].id = sheets[i].id
             /\ IsPrefix(sheets[i].parts, sheets'[i].parts) ]_vars

\* A later part's placement failed on a sheet that holds two accepted parts.
C6_Witness ==
    /\ last_event.kind \in {"reject", "discard"}
    /\ Len(sheets) >= 1
    /\ Len(sheets[1].parts) = 2

\* C7 (invalid configuration): a call with width <= 0, height <= 0 or
\* rotation_steps = 0 constructs no nester and no sheet, attempts no placement
\* and, once over, has ended in an invalid-configuration error.
C7_InvalidConfigRejected ==
    (width <= 0 \/ height <= 0 \/ rotation_steps_arg = 0) =>
        /\ ~nester.made
        /\ ~sheet_created
        /\ ~attempted
        /\ pc # "done"
        /\ pc = "raised" => raised = "InvalidConfiguration"

\* C8 (failure signalling): once the call is past its checks, an unsupported
\* selector has raised the unsupported-algorithm condition, a supported one
\* with Shapely missing has raised NestingDependencyError, and in both cases
\* no nester was constructed, no sheet created and no placement attempted.
C8_FailureSignalling ==
    pc \notin {"import", "call"} =>
        /\ NesterClass(algorithm) = "None" => raised = "NotImplementedError"
        /\ (NesterClass(algorithm) # "None" /\ ~shapely_installed) =>
              raised = "NestingDependencyError"
        /\ (NesterClass(algorithm) = "None" \/ ~shapely_installed) =>
              ~nester.made /\ ~sheet_created /\ ~attempted

\* C9 (optional progress callback): once the movement loop is entered, no
\* error has been raised and the callback has been invoked once per movement
\* step when one was supplied to the constructor, and never when none was.
C9_CallbackOptional ==
    g_pc \in {"loop", "returned", "raised"} =>
        /\ g_raised = ""
        /\ g_callback_calls = (IF g_kwargs_callback THEN g_moves ELSE 0)

\* C10 (cache determinism): when a request's read of the pair cache finds the
\* key stored, whether as a polygon, as the empty result or as an error
\* sentinel, the request computes nothing and hands on the stored object.
C10_CacheDeterminism ==
    \A t \in NfpThreads :
        th[t].found.kind # "absent" =>
            /\ th_pc[t] \notin {"cpu_compute", "cpu_store", "gpu_compute", "gpu_store"}
            /\ (th_pc[t] = "check" => th[t].nfp_data = th[t].found)

\* C11 (a failed pair is no restriction): no query ends by returning None; a
\* query that met a pair whose computation failed still returns the entry.
C11_FailureIsNoRestriction ==
    \A t \in NfpThreads : th_ret[t] # "None"

\* C12 (GPU failure is never fatal): an engine asked for the GPU without an
\* available backend has use_gpu false and never enters the GPU routine; a
\* thread whose GPU attempt raised goes on inside _calculate_and_cache_nfp and
\* hands to its caller data of the kind the CPU geometry of the pair yields;
\* what that CPU computation stores goes under the pair's own key.
C12_GpuFailureNotFatal ==
    /\ [](/\ (gpu_requested /\ ~gpu_available) =>
                (~use_gpu /\ \A t \in NfpThreads :
                    th_pc[t] \notin {"gpu_lookup", "gpu_compute", "gpu_store"})
          /\ \A t \in NfpThreads :
                th[t].fallback =>
                    /\ th_pc[t] \in {"cpu_lookup", "cpu_compute", "cpu_store", "check"}
                    /\ th_pc[t] = "check" =>
                          th[t].nfp_data.kind = DataOf(geom[PairKey(t)], 0).kind)
    /\ [][\A t \in NfpThreads :
            (th[t].fallback /\ th_pc[t] = "cpu_store" /\ th_pc'[t] = "check") =>
                shape_nfp_cache'[PairKey(t)] = th[t].nfp_data]_vars

\* A thread's GPU attempt raised, the CPU routine computed a polygon and
\* stored it, and the thread is back in get_global_nfp_for.
C12_Witness ==
    \E t \in NfpThreads :
        /\ th[t].fallback
        /\ th_pc[t] = "check"
        /\ th[t].nfp_data.kind = "poly"
        /\ shape_nfp_cache[PairKey(t)] = th[t].nfp_data

\* Bounding-box area of the parts of a layout's last sheet.
LastBox(layout) == BoundingBoxArea(layout.sheets[Len(layout.sheets)])

SliceIds == { ox_parent1[i] : i \in (ox_start + 1)..ox_end }

\* The child's entries outside the slice, left to right.
OutsideSlice == SubSeq(ox_child_p, 1, ox_start) \o SubSeq(ox_child_p, ox_end + 1, Len(ox_child_p))

\* parent2 without the ids of the slice, in parent2's order.
Parent2Rest ==
    LET NotInSlice(x) == x \notin SliceIds
    IN  SelectSeq(ox_parent2, NotInSlice)

\* C14 (ordered crossover yields a permutation): the fill never reads past
\* the end of parent 2, and the returned child has the parents' length, holds
\* every part id exactly once, equals parent 1 on [start, end), and holds on
\* its other positions, left to right, the remaining parts in parent 2's
\* order.
C14_CrossoverPermutation ==
    /\ ox_raised = ""
    /\ ox_p2_index <= Len(ox_parent2)
    /\ ox_pc = "done" =>
          /\ Len(ox_child_p) = Len(ox_parent1)
          /\ \A id \in 1..Len(ox_parent1) :
                Cardinality({ i \in 1..Len(ox_child_p) : ox_child_p[i] = id }) = 1
          /\ \A i \in (ox_start + 1)..ox_end : ox_child_p[i] = ox_parent1[i]
          /\ OutsideSlice = Parent2Rest

\* A child of three parts is returned whose slice is the middle part and
\* whose parents order the parts differently.
C14_Witness ==
    /\ ox_pc = "done"
    /\ Len(ox_parent1) = 3
    /\ ox_start = 1 /\ ox_end = 2
    /\ ox_parent1 # ox_parent2
    /\ ox_child_p # ox_parent1 /\ ox_child_p # ox_parent2

\* What one step of a run that has its first solution may do to the costs.
AcceptanceStep ==
    an_pc \in {"while", "for"} =>
        /\ an_best_cost' <= an_best_cost
        /\ (an_total_iterations' # an_total_iterations /\ an_last'.accepted) =>
              (an_last'.new_cost <= an_last'.prev_cost \/ an_last'.draw)
        /\ (an_total_iterations' # an_total_iterations /\ ~an_last'.accepted) =>
              (an_current_solution' = an_current_solution
                 /\ an_current_cost' = an_current_cost)

\* C15 (monotonic annealing acceptance): once the run has its first solution,
\* the best cost is at most the current cost and both costs are those of the
\* stored solutions; a step never raises the best cost; and a step that makes
\* the neighbour the current solution had a neighbour cost not above the
\* current cost or a Metropolis draw that passed.
C15_MonotonicAnnealing ==
    /\ [](an_pc \in {"while", "for"} =>
            /\ an_best_cost <= an_current_cost
            /\ an_best_cost = CalculateCost(an_best_solution)
            /\ an_current_cost = CalculateCost(an_current_solution))
    /\ [][AcceptanceStep]_vars

\* A costlier neighbour was accepted on a passed draw while the best
\* solution stayed the cheaper one.
C15_Witness ==
    /\ an_pc = "for"
    /\ an_last.accepted /\ an_last.draw
    /\ an_last.new_cost > an_last.prev_cost
    /\ an_current_cost = an_last.new_cost
    /\ an_best_cost < an_current_cost

\* C16 (cooperative cancellation): once cancellation has been requested, no
\* step of the packing loop accepts a part onto a sheet.
C16_CooperativeCancellation ==
    [][cancel_requested =>
         PlacedCount(Len(sheets))' = PlacedCount(Len(sheets))]_vars

\* C17: input isolation of nest(). Without 'update_callback' in kwargs the
\* nester works on deep copies: none of the objects it is given is one of the
\* caller's, and every caller object keeps the position and angle it had when
\* nest() was called. With 'update_callback' the objects the nester is given
\* are the caller's own, and only then can a caller object have moved.
C17_InputIsolation ==
    /\ ~iso_has_callback =>
          \A o \in CallerObjects : iso_heap[o] = iso_before[o]
    /\ \A i \in 1..Len(iso_parts_to_process) :
          iso_parts_to_process[i] \in CallerObjects <=> iso_has_callback
    /\ (\E o \in CallerObjects : iso_heap[o] # iso_before[o]) => iso_has_callback

\* nest() has returned without 'update_callback' and the nester has moved
\* every copy away from the pose of the object it copies.
C17_Witness ==
    /\ iso_pc = "returned"
    /\ ~iso_has_callback
    /\ \A o \in CallerObjects :
          iso_heap[CopyOf(o)] # NoPose /\ iso_heap[CopyOf(o)] # iso_heap[o]

\* C18: GPU/CPU equivalence. For the same pair of master polygons and the same
\* relative angle the polygon of the GPU path and the polygon of the CPU path
\* differ in area by less than 1.0 and their centroids are less than 1.0
\* apart (eq_centroid_dist2 is the square of twice the distance).
C18_GpuCpuEquivalence ==
    eq_pc = "compared" => eq_area_diff < 1 /\ eq_centroid_dist2 < 4

\* C19: outcome of the shake search. When _anneal_part has returned, the
\* attempts were made in iteration order; if one of them passed the validity
\* check it is the last one made, no earlier one passed, and the part is at
\* its pose; if none passed the part is at its pre-shake position and angle.
\* With anneal_steps = 0, with both kinds disabled, or with a rotation-only
\* search on a part with rotation_steps <= 1, no attempt is made at all.
C19_ShakeOutcome ==
    sk_pc = "returned" =>
        LET n == Len(sk_attempts)
        IN  /\ \A j, k \in 1..n : j < k => sk_attempts[j].i < sk_attempts[k].i
            /\ IF \E k \in 1..n : sk_attempts[k].is_valid
               THEN /\ sk_attempts[n].is_valid
                    /\ \A k \in 1..(n - 1) : ~sk_attempts[k].is_valid
                    /\ sk_pose = sk_attempts[n].pose
               ELSE sk_pose = sk_start
            /\ (\/ sk_anneal_steps = 0
                \/ (~sk_anneal_rotate_enabled /\ ~sk_anneal_translate_enabled)
                \/ (~sk_rotate_enabled /\ ~sk_translate_enabled)
                \/ (sk_rotate_enabled /\ ~sk_translate_enabled /\ sk_part.rotation_steps <= 1))
               => (n = 0 /\ sk_pose = sk_start)

\* The search has returned at its third attempt, after two that failed, with
\* the part away from its pre-shake pose.
C19_Witness ==
    /\ sk_pc = "returned"
    /\ Len(sk_attempts) = 3
    /\ sk_attempts[3].is_valid
    /\ sk_pose # sk_start

\* The sign of attempt i: s on even i, -s on odd i.
ScheduleSign(s, i) == IF i % 2 = 0 THEN s ELSE -s

\* The pre-shake pose turned by one rotation of (360/rotation_steps)*(i//2 + 1).
ScheduledRotation(pre, rotation_steps, s, i) ==
    Pose(pre.x, pre.y,
         (pre.angle + (360 \div rotation_steps) * (i \div 2 + 1) * ScheduleSign(s, i)) % 360)

\* The pre-shake pose shifted by step_size*(i//2 + 1) along direction u.
ScheduledTranslation(pre, u, s, i) ==
    Pose(pre.x + u[1] * step_size * (i \div 2 + 1) * ScheduleSign(s, i),
         pre.y + u[2] * step_size * (i \div 2 + 1) * ScheduleSign(s, i),
         pre.angle)

\* C20 as stated: the pose tested at attempt i is fixed by the pre-shake pose
\* and i: one perturbation of magnitude unit*(i//2 + 1) with the sign s on
\* even i and -s on odd i, a translation going along the perpendicular of the
\* gravity direction; at most anneal_steps attempts are made.
C20_FixedSchedule ==
    /\ Len(sk_attempts) <= sk_anneal_steps
    /\ \A k \in 1..Len(sk_attempts) :
          LET a == sk_attempts[k]
          IN  IF a.kind = "rotation"
              THEN a.pose = ScheduledRotation(sk_start, sk_part.rotation_steps,
                                              sk_initial_side_direction, a.i)
              ELSE a.pose = ScheduledTranslation(sk_start, <<-sk_direction[2], sk_direction[1]>>,
                                                 sk_initial_side_direction, a.i)

\* C20, amended: attempts do not compound and the magnitudes follow the fixed
\* schedule: the pose tested at attempt i is the pre-shake pose changed by one
\* perturbation of magnitude unit*(i//2 + 1) with the sign s on even i and -s
\* on odd i. A translation goes along the perpendicular of the gravity
\* direction unless anneal_random_shake_direction is set; then its direction
\* is drawn at each attempt and only its length is fixed. At most
\* anneal_steps attempts are made.
C20_ShakeSchedule ==
    /\ Len(sk_attempts) <= sk_anneal_steps
    /\ \A k \in 1..Len(sk_attempts) :
          LET a == sk_attempts[k]
          IN  IF a.kind = "rotation"
              THEN a.pose = ScheduledRotation(sk_start, sk_part.rotation_steps,
                                              sk_initial_side_direction, a.i)
              ELSE IF sk_anneal_random_shake_direction
              THEN \E u \in {<<1, 0>>, <<0, 1>>, <<-1, 0>>, <<0, -1>>} :
                      a.pose = ScheduledTranslation(sk_start, u, sk_initial_side_direction, a.i)
              ELSE a.pose = ScheduledTranslation(sk_start, <<-sk_direction[2], sk_direction[1]>>,
                                                 sk_initial_side_direction, a.i)

\* A translation search along the fixed perpendicular has made three
\* attempts, the third further out than the first.
C20_Witness ==
    /\ Len(sk_attempts) = 3
    /\ ~sk_anneal_random_shake_direction
    /\ sk_attempts[1].kind = "translation"
    /\ sk_attempts[3].pose # sk_attempts[1].pose
    /\ sk_attempts[2].pose # sk_start

C22_RotationFirst ==
    (mv_pc \in {"phase3", "returned"} /\ mv_cfg.anneal_translate_enabled) =>
        (mv_trans_ran <=> mv_post_rot = mv_pre_shake)

\* C23: gravity movement preserves validity. _apply_gravity_to_part, called
\* with the part at a valid pose, comes to its end by returning, with the
\* part at a valid pose after at most max_nesting_steps steps: no step is
\* left half done.
C23_GravityPreservesValidity ==
    /\ g_pc # "raised"
    /\ g_pc = "returned" =>
          /\ IsPlacementValid(g_sheet, g_part, g_x, g_y, 0)
          /\ g_i <= g_max_nesting_steps

\* Thread t is at a read of the pair cache (line 102, 165 or 252) and the
\* pair's key holds an error sentinel.
AtReadOfSentinel(t) ==
    /\ \/ th_pc[t] \in {"cpu_lookup", "gpu_lookup"}
       \/ th_pc[t] = "loop" /\ th[t].k <= Len(th[t].parts_to_process)
    /\ shape_nfp_cache[PairKey(t)].kind = "error"

\* A step of thread t from such a read hands on the stored sentinel and calls
\* no geometry routine; a step that leaves the computation of a pair whose
\* geometry raises goes on to store an error sentinel; the step that stores
\* puts the thread's data under the pair's key.
SentinelSteps ==
    \A t \in NfpThreads :
        /\ (AtReadOfSentinel(t) /\ th_pc'[t] # th_pc[t]) =>
              /\ th_pc'[t] = "check"
              /\ th'[t].nfp_data = shape_nfp_cache[PairKey(t)]
              /\ geometry_calls' = geometry_calls
              /\ shape_nfp_cache' = shape_nfp_cache
        /\ (th_pc[t] = "cpu_compute" /\ th_pc'[t] # th_pc[t] /\ geom[PairKey(t)] = "raise") =>
              /\ th_pc'[t] = "cpu_store"
              /\ th'[t].nfp_data.kind = "error"
        /\ (th_pc[t] = "cpu_store" /\ th_pc'[t] # th_pc[t]) =>
              /\ th_pc'[t] = "check"
              /\ shape_nfp_cache'[PairKey(t)] = th[t].nfp_data

\* C24 (NFP failure policy): an exception of the pair's geometry does not
\* leave _calculate_and_cache_nfp: the routine stores an error sentinel under
\* the pair's key and returns it; every later read of that key gets the
\* stored sentinel and the pair is not computed again.
C24_FailurePolicy ==
    /\ [](\A t \in NfpThreads :
            /\ th_pc[t] = "cpu_store" =>
                  (geom[PairKey(t)] = "raise" <=> th[t].nfp_data.kind = "error")
            /\ th[t].found.kind = "error" =>
                  /\ th_pc[t] \notin {"cpu_compute", "cpu_store", "gpu_compute", "gpu_store"}
                  /\ th_pc[t] = "check" => th[t].nfp_data = th[t].found)
    /\ [][SentinelSteps]_vars

\* One thread's query computed a pair, whose geometry raised, and returned;
\* a later request of the other thread for the key found the sentinel and
\* hands it on, with the one geometry call made so far.
C24_Witness ==
    \E t, u \in NfpThreads :
        /\ th_ret[u] = "None"
        /\ th_pc[u] = "idle"
        /\ th_pc[t] = "check"
        /\ th[t].found.kind = "error"
        /\ th[t].nfp_data = shape_nfp_cache[PairKey(t)]
        /\ geometry_calls = 1

\* The placed parts (indices into sheet.parts) thread t's query is processing.
Processing(t) ==
    { th[t].parts_to_process[i] : i \in 1..Len(th[t].parts_to_process) }

\* C25 (per-sheet critical section): two threads querying the same sheet and
\* key never process the same newly placed part: the reads of the watermark,
\* the extension of the union and the watermark's update of one query are
\* not interleaved with those of the other.
C25_CriticalSection ==
    \A t, u \in NfpThreads :
        t # u => Processing(t) \cap Processing(u) = {}

\* What the engine's geometry yields for the pair of a placed part of master
\* shape l: the kernel's result when the GPU path is on and does not raise,
\* else the CPU result.
Yields(l) == IF use_gpu /\ gpu_geom # "raise" THEN gpu_geom ELSE geom[l]

\* C28 (the watermark covers what was folded): every placed part with index
\* below the entry's last_part_idx whose pair has an NFP polygon is in the
\* entry's union, whatever the interleaving of add_part with the queries.
C28_WatermarkCoversFolded ==
    \A i \in 1..Len(sheet_parts) :
        (i <= sheet_nfp_cache.last_part_idx /\ Yields(sheet_parts[i]) = "poly") =>
            i \in sheet_nfp_cache.polygon

\* The union, computed from scratch, of the NFPs of all placed parts.
UnionFromScratch ==
    { i \in 1..Len(sheet_parts) : Yields(sheet_parts[i]) = "poly" }

\* The steps of the single thread's queries: one that finds the entry up to
\* date returns it with no pair work; one that returns the entry leaves the
\* watermark at the number of placed parts and the polygon equal to the union
\* from scratch; the watermark never decreases.
IncrementalSteps ==
    /\ (th_pc["t1"] = "idle" /\ sheet_parts' = sheet_parts /\ sheet_nfp_cache.exists
           /\ sheet_nfp_cache.last_part_idx >= Len(sheet_parts)) =>
          /\ th_pc'["t1"] = "idle" /\ th_ret'["t1"] = "entry"
          /\ geometry_calls' = geometry_calls
          /\ shape_nfp_cache' = shape_nfp_cache
          /\ sheet_nfp_cache' = sheet_nfp_cache
    /\ (th_pc["t1"] \in {"idle", "update"} /\ sheet_parts' = sheet_parts
           /\ th_pc'["t1"] = "idle" /\ th_ret'["t1"] = "entry") =>
          /\ sheet_nfp_cache'.last_part_idx = Len(sheet_parts)
          /\ sheet_nfp_cache'.polygon = UnionFromScratch
    /\ sheet_nfp_cache'.last_part_idx >= sheet_nfp_cache.last_part_idx

\* C26 (incremental per-sheet union, one thread): a query processes exactly
\* the parts from the watermark to the number of placed parts; a query that
\* finds the watermark there does no pair work; after a query that returns
\* the entry the watermark is the number of placed parts and the polygon is
\* the union from scratch of the NFPs of all placed parts; the watermark
\* never decreases.
C26_IncrementalUnion ==
    /\ [](th_pc["t1"] \notin {"idle", "slice"} =>
            /\ Processing("t1") =
                  (sheet_nfp_cache.last_part_idx + 1)..Len(sheet_parts)
            /\ sheet_nfp_cache.polygon \cup th["t1"].new_polys
                  \subseteq UnionFromScratch
            /\ \A i \in 1..Len(sheet_parts) :
                  /\ Yields(sheet_parts[i]) = "poly"
                  /\ \/ i <= sheet_nfp_cache.last_part_idx
                     \/ \E j \in 1..(th["t1"].k - 1) : th["t1"].parts_to_process[j] = i
                  => i \in sheet_nfp_cache.polygon \cup th["t1"].new_polys)
    /\ [][IncrementalSteps]_vars

\* A second query, on an entry that holds the first part, has processed the
\* one part placed since and is about to fold it.
C26_Witness ==
    /\ th_pc["t1"] = "update"
    /\ Len(sheet_parts) = 2
    /\ sheet_nfp_cache.last_part_idx = 1
    /\ sheet_nfp_cache.polygon = {1}
    /\ Processing("t1") = {2}
    /\ th["t1"].new_polys = {2}

\* C27 (only allowed orientations are assigned): every part of a chromosome
\* made by create_random_chromosome or changed by mutate_chromosome is at an
\* angle that is a multiple of 360 divided by the part's own rotation_steps,
\* and a part whose rotation_steps is 1 is not rotated.
C27_AllowedOrientations ==
    \A r \in DOMAIN ga_heap :
        LET part == ga_heap[r]
        IN  /\ (part.angle * part.rotation_steps) % 360 = 0
            /\ part.rotation_steps = 1 => part.angle = 0

\* C29 (chromosome independence): after mutate_chromosome on the child of
\* ordered_crossover both parents hold the same parts in the same order and
\* at the same angles as when the child was made.
C29_ChromosomeIndependence ==
    ga_pc = "mutated" =>
        ga_before = <<PartsOf(ga_parent1, ga_heap), PartsOf(ga_parent2, ga_heap)>>

\* C30 (bounded annealing budget): whatever the temperatures, the cooling
\* rate, the sub-steps per temperature and total_max_iterations, the loop of
\* _run_annealing_on_sheet never evaluates more than total_max_iterations
\* neighbour solutions.
C30_BoundedBudget ==
    an_total_iterations <= an_params.total_max_iterations

====
